---- MODULE Spec2Model ----
(***************************************************************************)
(* Page objects of the playwright-master repository, modelled as the state *)
(* machine a scenario drives: the event-observing operations               *)
(* (FileDownloadPage, FileUploadPage, WindowsPage), the window management  *)
(* operations of WindowsPage, and the readers of TablePage.                *)
(*                                                                         *)
(* One scenario runs at a time and issues its commands sequentially; every *)
(* awaited driver call is a suspension point at which the browser (the     *)
(* environment) may act.                                                   *)
(***************************************************************************)
EXTENDS Integers, Sequences, FiniteSets, Bags, TLC

VARIABLES
    pages,        \* context.pages(): the open pages, in creation order
    created,      \* number of pages created so far in this context
    call,         \* the page-object operation the scenario is executing
    sub,          \* the subscription (waitForEvent promise) of that operation
    armed,        \* the browser has performed the click and will emit the event
    fired,        \* what became of the event the click produced
    testElapsed,  \* ticks since the scenario started (per-test timeout)
    url,          \* the surface the scenario's page shows
    table,        \* tbody of table#table1: a sequence of rows of cell texts
    headers,      \* texts of the thead th cells of table#table1
    links,        \* texts of the a[href^="download/"] links
    columns,      \* texts of #column-a and #column-b
    sortPending,  \* a header was clicked; the table has not re-rendered yet
    tcall,        \* the reader operation the scenario is executing
    last,         \* the previous reader call, while nothing has changed since
    docs,         \* the document (title and URL) each page of the context shows
    fcall,        \* the findWindowBy... call the scenario is executing
    lastIndex,    \* lastIndex of the RegExp object the scenario passes
    surface,      \* the path the page of the auth scenario shows
    form,         \* the values of the form's fields on that page
    session,      \* the user the context's session cookie stands for
    flash,        \* the notice in #flash
    users,        \* the accounts registered on the site
    acall,        \* the auth operation the scenario is executing
    now,          \* Date.now()
    username,     \* const username = uniqueUsername(prefix)
    issued,       \* the bag of the usernames uniqueUsername has returned
    dragged,      \* the drags performed on the page since it was loaded
    started,      \* the number of tests the runner has started
    contexts,     \* the browser context (and its page) of each started test
    running,      \* per worker: the test it runs and how far the test is
    pageObject,   \* per worker: the describe block's page-object variable
    stest,        \* a test of soft assertions: its position and its errors
    hcall,        \* a scenario of the upload/download file: where it is
    wcall,        \* a call of switchToWindow
    dcall,        \* a call of downloadAndReadText / downloadAndReadBuffer
    mcall         \* a call of manualDragDrop, and the mouse

evVars  == <<pages, created, call, sub, armed, fired, testElapsed>>
tblVars == <<url, table, headers, links, columns, sortPending, tcall, last>>
findVars == <<docs, fcall, lastIndex>>
authVars == <<surface, form, session, flash, users, acall, now, username,
              issued>>
isoVars == <<started, contexts, running, pageObject>>
lateVars == <<stest, hcall, wcall, dcall, mcall>>
othVars == <<findVars, authVars, dragged, isoVars, lateVars>>
vars    == <<pages, created, call, sub, armed, fired, testElapsed,
             url, table, headers, links, columns, sortPending, tcall, last,
             othVars>>

(***************************************************************************)
(* Bounds of the model and constants of the configuration.                 *)
(***************************************************************************)
MaxPages == 3
TickMs == 10000

actionTimeout == 10000
navigationTimeout == 30000
timeoutDisabled == actionTimeout - actionTimeout
timeout == 30000

MainPage == 1
NoPage == 0

\* A Playwright timeout of 0 disables the timeout.
TimeoutSet(ms) == ms # 0
Ticks(ms) == (ms + TickMs - 1) \div TickMs
Due(elapsed, ms) == TimeoutSet(ms) /\ elapsed >= Ticks(ms)

(***************************************************************************)
(* The operations, each as the sequence of its statements.                 *)
(*   waitForEvent      const p = x.waitForEvent(kind)   (not awaited)      *)
(*   click             await locator.click()                               *)
(*   awaitEvent        await p                                             *)
(*   all               await Promise.all([x.waitForEvent(kind), click()])  *)
(***************************************************************************)
downloadFileByName_clickFirst == <<"click", "waitForEvent", "awaitEvent">>
downloadFileByName == <<"waitForEvent", "click", "awaitEvent">>

uploadViaFileChooser == <<"waitForEvent", "click", "awaitEvent", "setFiles">>

clickLinkOpeningNewWindow ==
    <<"waitForEvent", "click", "awaitEvent", "waitForLoadState">>

TC_D02 == <<"all">>

goto == <<"goto">>

closeWindow == <<"close">>

closeAllExceptMain == <<"snapshotPages", "closeLoop">>

expectWindowCount == <<"pollEq">>

expectNewWindowOpened == <<"pollGt">>

EventOps == {"downloadFileByName", "uploadViaFileChooser",
             "clickLinkOpeningNewWindow", "TC_D02"}
PageObjectEventOps == EventOps \ {"TC_D02"}
Ops == EventOps \cup {"goto", "closeWindow", "closeAllExceptMain",
                      "expectWindowCount", "expectNewWindowOpened"}

Program(op) ==
    CASE op = "downloadFileByName" -> downloadFileByName
      [] op = "uploadViaFileChooser" -> uploadViaFileChooser
      [] op = "clickLinkOpeningNewWindow" -> clickLinkOpeningNewWindow
      [] op = "TC_D02" -> TC_D02
      [] op = "goto" -> goto
      [] op = "closeWindow" -> closeWindow
      [] op = "closeAllExceptMain" -> closeAllExceptMain
      [] op = "expectWindowCount" -> expectWindowCount
      [] op = "expectNewWindowOpened" -> expectNewWindowOpened
      [] OTHER -> <<>>

EventKind(op) ==
    CASE op = "downloadFileByName" -> "download"
      [] op = "TC_D02" -> "download"
      [] op = "uploadViaFileChooser" -> "filechooser"
      [] op = "clickLinkOpeningNewWindow" -> "page"
      [] OTHER -> "none"

\* The arguments each operation is called with.
Args(op) ==
    CASE op = "closeWindow" -> 1..MaxPages
      [] op = "expectWindowCount" -> 0..MaxPages
      [] op = "expectNewWindowOpened" -> 0..MaxPages
      [] OTHER -> {0}

\* The commands that wait on the driver, and the timeout each carries.
Commands == {"click", "setFiles", "waitForLoadState", "goto"}
Limit(stmt) ==
    IF stmt \in {"waitForLoadState", "goto"} THEN navigationTimeout
    ELSE actionTimeout

getWindowCount_created == created
getWindowCount == Len(pages)

\* pages[pages.length - 1]
switchToLastWindow_first == IF pages = <<>> THEN NoPage ELSE pages[1]
switchToLastWindow == IF pages = <<>> THEN NoPage ELSE pages[Len(pages)]

Remove(s, p) == SelectSeq(s, LAMBDA q : q # p)

(***************************************************************************)
(* State of a scenario.                                                    *)
(***************************************************************************)
Idle == [op |-> "none", st |-> "idle", ip |-> 0, phase |-> "enter",
         cmd |-> "none", performed |-> FALSE, elapsed |-> 0, arg |-> 0,
         snap |-> <<>>, i |-> 0, main |-> NoPage, err |-> "none"]

NoSub == [st |-> "none", elapsed |-> 0]

NoTCall == [op |-> "none", r |-> 0, c |-> 0, s |-> <<>>, st |-> "idle",
            phase |-> "count", n |-> 0, i |-> 0, acc |-> <<>>, val |-> <<>>,
            mutated |-> FALSE]
NoLast == [op |-> "none", r |-> 0, c |-> 0, s |-> <<>>, st |-> "idle",
           val |-> <<>>]

Running == call.st = "running"
Stmt == IF Running /\ call.ip <= Len(Program(call.op))
        THEN Program(call.op)[call.ip] ELSE "end"

\* The statement at ip completed: go on with the next one.
Advance(c) == [c EXCEPT !.ip = @ + 1, !.phase = "enter", !.cmd = "none",
                        !.performed = FALSE, !.elapsed = 0]
Throw_swallow(c, e) == [c EXCEPT !.ip = @ + 1, !.err = e]
Throw(c, e) == [c EXCEPT !.st = "threw", !.err = e]

EvInit ==
    /\ pages = <<MainPage>>
    /\ created = 1
    /\ call = Idle
    /\ sub = NoSub
    /\ armed = FALSE
    /\ fired = "no"
    /\ testElapsed = 0

(***************************************************************************)
(* The scenario's steps.                                                   *)
(***************************************************************************)
\* The scenario calls an operation of a page object.
StartCall ==
    /\ call.st = "idle"
    /\ \E op \in Ops : \E a \in Args(op) :
          call' = [Idle EXCEPT !.op = op, !.st = "running", !.ip = 1,
                               !.arg = a]
    /\ sub' = NoSub
    /\ armed' = FALSE
    /\ fired' = "no"
    /\ UNCHANGED <<pages, created, testElapsed>>
    /\ UNCHANGED <<tblVars, othVars>>

\* x.waitForEvent(kind): the listener is registered when the call is made.
ExecWaitForEvent ==
    /\ Stmt = "waitForEvent"
    /\ sub' = [st |-> "pending", elapsed |-> 0]
    /\ call' = Advance(call)
    /\ UNCHANGED <<pages, created, armed, fired, testElapsed>>
    /\ UNCHANGED <<tblVars, othVars>>

\* await command(): the command is issued, then the scenario is suspended.
ExecIssue ==
    /\ Stmt \in Commands
    /\ call.phase = "enter"
    /\ call' = [call EXCEPT !.phase = "wait", !.cmd = "inflight",
                            !.elapsed = 0]
    /\ UNCHANGED <<pages, created, sub, armed, fired, testElapsed>>
    /\ UNCHANGED <<tblVars, othVars>>

\* ... and resumes when the command has completed, or throws its error.
ExecResume ==
    /\ Stmt \in Commands
    /\ call.phase = "wait"
    /\ \/ /\ call.cmd = "done"
          /\ call' = Advance(call)
       \/ /\ call.cmd = "failed"
          /\ call' = [call EXCEPT !.st = "threw"]
    /\ UNCHANGED <<pages, created, sub, armed, fired, testElapsed>>
    /\ UNCHANGED <<tblVars, othVars>>

\* await p: resumes with the event, or throws the subscription's timeout.
ExecAwaitEvent ==
    /\ Stmt = "awaitEvent"
    /\ \/ /\ sub.st = "resolved"
          /\ sub' = [sub EXCEPT !.st = "consumed"]
          /\ call' = Advance(call)
       \/ /\ sub.st = "timedout"
          /\ sub' = sub
          /\ call' = Throw(call, "TimeoutError")
    /\ UNCHANGED <<pages, created, armed, fired, testElapsed>>
    /\ UNCHANGED <<tblVars, othVars>>

\* await Promise.all([x.waitForEvent(kind), locator.click()]): the array's
\* elements are evaluated in order, then both promises are awaited jointly;
\* the join rejects as soon as either rejects.
ExecAll ==
    /\ Stmt = "all"
    /\ \/ /\ call.phase = "enter"
          /\ sub' = [st |-> "pending", elapsed |-> 0]
          /\ call' = [call EXCEPT !.phase = "enter2"]
       \/ /\ call.phase = "enter2"
          /\ sub' = sub
          /\ call' = [call EXCEPT !.phase = "wait", !.cmd = "inflight",
                                  !.elapsed = 0]
       \/ /\ call.phase = "wait"
          /\ call.cmd = "done"
          /\ sub.st = "resolved"
          /\ sub' = [sub EXCEPT !.st = "consumed"]
          /\ call' = Advance(call)
       \/ /\ call.phase = "wait"
          /\ call.cmd = "failed"
          /\ sub' = sub
          /\ call' = [call EXCEPT !.st = "threw"]
       \/ /\ call.phase = "wait"
          /\ sub.st = "timedout"
          /\ sub' = sub
          /\ call' = Throw(call, "TimeoutError")
    /\ UNCHANGED <<pages, created, armed, fired, testElapsed>>
    /\ UNCHANGED <<tblVars, othVars>>

\* closeWindow(page): await page.close().
ExecClose ==
    /\ Stmt = "close"
    /\ pages' = Remove(pages, call.arg)
    /\ call' = Advance(call)
    /\ UNCHANGED <<created, sub, armed, fired, testElapsed>>
    /\ UNCHANGED <<tblVars, othVars>>

\* closeAllExceptMain: const pages = context.pages(); mainPage = pages[0].
ExecSnapshotPages ==
    /\ Stmt = "snapshotPages"
    /\ call' = [Advance(call) EXCEPT
                   !.snap = pages,
                   !.main = IF pages = <<>> THEN NoPage ELSE pages[1],
                   !.i = 1]
    /\ UNCHANGED <<pages, created, sub, armed, fired, testElapsed>>
    /\ UNCHANGED <<tblVars, othVars>>

\* for (const page of pages) if (page !== mainPage) await page.close();
ExecCloseLoop ==
    /\ Stmt = "closeLoop"
    /\ \/ /\ call.i <= Len(call.snap)
          /\ pages' = IF call.snap[call.i] # call.main
                      THEN Remove(pages, call.snap[call.i]) ELSE pages
          /\ call' = [call EXCEPT !.i = @ + 1]
       \/ /\ call.i > Len(call.snap)
          /\ pages' = pages
          /\ call' = Advance(call)
    /\ UNCHANGED <<created, sub, armed, fired, testElapsed>>
    /\ UNCHANGED <<tblVars, othVars>>

\* expect.poll(() => this.getWindowCount()).toBe(n) / .toBeGreaterThan(n):
\* passes on the first poll that satisfies the matcher.
PollPasses ==
    /\ Stmt = "pollEq" => getWindowCount = call.arg
    /\ Stmt = "pollGt" => getWindowCount > call.arg

ExecPoll ==
    /\ Stmt \in {"pollEq", "pollGt"}
    /\ PollPasses
    /\ call' = Advance(call)
    /\ UNCHANGED <<pages, created, sub, armed, fired, testElapsed>>
    /\ UNCHANGED <<tblVars, othVars>>

\* The configuration sets no expect timeout of its own: a poll that does not
\* pass may give up at any tick (the library's default), and ends at the
\* latest when the per-test timeout ends the scenario.
PollGiveUp ==
    /\ Stmt \in {"pollEq", "pollGt"}
    /\ ~PollPasses
    /\ call' = Throw(call, "AssertionTimeout")
    /\ UNCHANGED <<pages, created, sub, armed, fired, testElapsed>>
    /\ UNCHANGED <<tblVars, othVars>>

\* The last statement completed: the operation returns to the scenario.
Return ==
    /\ Running
    /\ Stmt = "end"
    /\ call' = [call EXCEPT !.st = "returned"]
    /\ UNCHANGED <<pages, created, sub, armed, fired, testElapsed>>
    /\ UNCHANGED <<tblVars, othVars>>

\* The scenario goes on after an operation that returned.
Continue ==
    /\ call.st = "returned"
    /\ call' = Idle
    /\ sub' = NoSub
    /\ fired' = "no"
    /\ UNCHANGED <<pages, created, armed, testElapsed>>
    /\ UNCHANGED <<tblVars, othVars>>

\* A scenario that ended (an operation threw, or the test body finished) is
\* torn down; the next scenario gets a fresh page and context.
NewScenario ==
    /\ call.st \in {"idle", "threw"}
    /\ \/ call.st = "threw"
       \/ testElapsed > 0
       \/ pages # <<MainPage>>
    /\ pages' = <<MainPage>>
    /\ created' = 1
    /\ call' = Idle
    /\ sub' = NoSub
    /\ armed' = FALSE
    /\ fired' = "no"
    /\ testElapsed' = 0
    /\ UNCHANGED <<tblVars, othVars>>

(***************************************************************************)
(* The browser and the clock.                                              *)
(***************************************************************************)
InFlight == Running /\ call.cmd = "inflight"
Clicking == InFlight /\ Stmt \in {"click", "all"}
\* this.page, the page the page object was constructed with, is still open;
\* waitForLoadState is issued on the new page, which the event just delivered.
PageOpen == \E i \in DOMAIN pages : pages[i] = MainPage
TargetOpen == Stmt = "waitForLoadState" \/ PageOpen

\* The browser performs the click: from now on it may emit the event.
PerformClick ==
    /\ Clicking
    /\ PageOpen
    /\ ~call.performed
    /\ call' = [call EXCEPT !.performed = TRUE]
    /\ armed' = TRUE
    /\ UNCHANGED <<pages, created, sub, fired, testElapsed>>
    /\ UNCHANGED <<tblVars, othVars>>

\* The command completes (a click: after it was performed).
CommandDone ==
    /\ InFlight
    /\ TargetOpen
    /\ Clicking => call.performed
    /\ call' = [call EXCEPT !.cmd = "done"]
    /\ UNCHANGED <<pages, created, sub, armed, fired, testElapsed>>
    /\ UNCHANGED <<tblVars, othVars>>

\* The command fails at once (no element, a strict-mode violation, a closed
\* page) without having acted.
CommandError ==
    /\ InFlight
    /\ ~call.performed
    /\ call' = [call EXCEPT !.cmd = "failed", !.err = "Error"]
    /\ UNCHANGED <<pages, created, sub, armed, fired, testElapsed>>
    /\ UNCHANGED <<tblVars, othVars>>

\* The command's timeout expires.
CommandTimeout ==
    /\ InFlight
    /\ Due(call.elapsed, Limit(Stmt))
    /\ call' = [call EXCEPT !.cmd = "failed", !.err = "TimeoutError"]
    /\ UNCHANGED <<pages, created, sub, armed, fired, testElapsed>>
    /\ UNCHANGED <<tblVars, othVars>>

\* The subscription's timeout expires: the listener is removed.
SubTimeout ==
    /\ sub.st = "pending"
    /\ Due(sub.elapsed, actionTimeout)
    /\ sub' = [sub EXCEPT !.st = "timedout"]
    /\ UNCHANGED <<pages, created, call, armed, fired, testElapsed>>
    /\ UNCHANGED <<tblVars, othVars>>

\* The browser emits the event the click produced; a 'page' event comes with
\* the new page, appended to context.pages().
FireEvent ==
    /\ armed
    /\ Running
    /\ EventKind(call.op) = "page" => created < MaxPages
    /\ armed' = FALSE
    /\ fired' = CASE sub.st = "pending" -> "delivered"
                  [] sub.st = "none" -> "missed"
                  [] OTHER -> "late"
    /\ sub' = IF sub.st = "pending" THEN [sub EXCEPT !.st = "resolved"]
              ELSE sub
    /\ IF EventKind(call.op) = "page"
       THEN /\ created' = created + 1
            /\ pages' = Append(pages, created + 1)
       ELSE UNCHANGED <<pages, created>>
    /\ UNCHANGED <<call, testElapsed>>
    /\ UNCHANGED <<tblVars, othVars>>

\* Time passes; no timer runs past its deadline.
Tick ==
    /\ call.st \in {"idle", "running"}
    /\ ~Due(testElapsed, timeout)
    /\ ~(sub.st = "pending" /\ Due(sub.elapsed, actionTimeout))
    /\ ~(InFlight /\ Due(call.elapsed, Limit(Stmt)))
    /\ testElapsed' = IF TimeoutSet(timeout) THEN testElapsed + 1
                      ELSE testElapsed
    /\ sub' = IF sub.st = "pending" /\ TimeoutSet(actionTimeout)
              THEN [sub EXCEPT !.elapsed = @ + 1] ELSE sub
    /\ call' = IF InFlight /\ TimeoutSet(Limit(Stmt))
               THEN [call EXCEPT !.elapsed = @ + 1] ELSE call
    /\ UNCHANGED <<pages, created, armed, fired>>
    /\ UNCHANGED <<tblVars, othVars>>

\* The per-test timeout ends the scenario, whatever it is waiting for.
TestTimeout ==
    /\ call.st \in {"idle", "running"}
    /\ Due(testElapsed, timeout)
    /\ call' = [call EXCEPT !.st = "threw", !.err = "TestTimeout"]
    /\ UNCHANGED <<pages, created, sub, armed, fired, testElapsed>>
    /\ UNCHANGED <<tblVars, othVars>>

EvNext ==
    \/ StartCall \/ ExecWaitForEvent \/ ExecIssue \/ ExecResume
    \/ ExecAwaitEvent \/ ExecAll \/ ExecClose \/ ExecSnapshotPages
    \/ ExecCloseLoop \/ ExecPoll \/ Return \/ Continue \/ NewScenario
    \/ PerformClick \/ CommandDone \/ CommandError \/ FireEvent
    \/ CommandTimeout \/ SubTimeout \/ TestTimeout \/ Tick \/ PollGiveUp

(***************************************************************************)
(* Texts.  A string is the sequence of its characters; undefined and null  *)
(* are values that are not strings.                                        *)
(***************************************************************************)
MaxRows == 2
MaxDrags == 3
MaxWorkers == 2
MaxTests == 3
MaxSteps == 2

Alphabet == {"a", "b", " "}
Texts == {<<>>, <<" ", "a", " ">>}
Widths == {0, 1, 2}
SearchTexts == {<<>>, <<"a">>, <<"b">>, <<" ", " ">>}

Undefined == <<"undefined">>
Null == <<"null">>
TimeoutError == <<"TimeoutError">>
NotFound == -1

IsString(v) == \A k \in DOMAIN v : v[k] \in Alphabet

SeqsUpTo(S, n) == UNION {[1..k -> S] : k \in 0..n}
Rows == UNION {[1..w -> Texts] : w \in Widths}
Tables == SeqsUpTo(Rows, MaxRows)

\* String.prototype.trim
Trim(t) ==
    LET ink == {k \in DOMAIN t : t[k] # " "}
    IN  IF ink = {} THEN <<>>
        ELSE SubSeq(t, CHOOSE k \in ink : \A j \in ink : k <= j,
                       CHOOSE k \in ink : \A j \in ink : k >= j)

\* String.prototype.includes
Includes(t, s) ==
    \E k \in 0..(Len(t) - Len(s)) : SubSeq(t, k + 1, k + Len(s)) = s

\* value || ""
OrEmpty(v) == IF v = Null \/ v = <<>> THEN <<>> ELSE v

\* row[columnIndex] of a JavaScript array
At(row, c) == IF c + 1 \in DOMAIN row THEN row[c + 1] ELSE Undefined

RECURSIVE Concat(_)
Concat(cells) ==
    IF cells = <<>> THEN <<>> ELSE Head(cells) \o Concat(Tail(cells))

(***************************************************************************)
(* What the locators resolve to on the current surface.                    *)
(***************************************************************************)
RowExists(tbl, r) == r + 1 \in DOMAIN tbl
CellExists(tbl, r, c) == RowExists(tbl, r) /\ c + 1 \in DOMAIN tbl[r + 1]

\* locator.allTextContents(): the texts of the elements that match now; it
\* does not wait, and yields [] when none matches.
allTextContents(tbl, r) == IF RowExists(tbl, r) THEN tbl[r + 1] ELSE <<>>

\* cells.map((c) => c.trim())
TrimAll(cells) == [k \in DOMAIN cells |-> Trim(cells[k])]

Returned(v) == [st |-> "returned", val |-> v]
Threw(e) == [st |-> "threw", val |-> e]

(***************************************************************************)
(* TablePage, FileDownloadPage and DragDropPage readers.                   *)
(***************************************************************************)
getRowCount_cells(tbl) == Len(Concat(tbl))
getRowCount(tbl) == Len(tbl)

getHeaders(hdrs) == hdrs

\* locator.textContent() waits for the element and times out without it.
getCellText(tbl, r, c) ==
    IF CellExists(tbl, r, c) THEN Returned(OrEmpty(tbl[r + 1][c + 1]))
    ELSE Threw(TimeoutError)

getRowData(tbl, r) == TrimAll(allTextContents(tbl, r))

\* data.map((row) => row[columnIndex])
getColumnData_filtered(data, c) ==
    SelectSeq([k \in DOMAIN data |-> At(data[k], c)],
              LAMBDA v : v # Undefined /\ v # <<>>)
getColumnData(data, c) == [k \in DOMAIN data |-> At(data[k], c)]

getColumnAText(cols) == OrEmpty(cols[1])
getColumnBText(cols) == OrEmpty(cols[2])

\* rows[i].textContent(): the text of the row's cells, one after the other.
rowTextContent(tbl, r) ==
    IF RowExists(tbl, r) THEN Returned(Concat(tbl[r + 1]))
    ELSE Threw(TimeoutError)

\* links.nth(i).innerText()
linkInnerText(lnks, k) ==
    IF k + 1 \in DOMAIN lnks THEN Returned(lnks[k + 1])
    ELSE Threw(TimeoutError)

\* const filenames: string[] = []; const data: string[][] = []
NewArray_kept == IF last.op = tcall.op /\ last.st = "returned"
                 THEN last.val ELSE <<>>
NewArray == <<>>

(***************************************************************************)
(* A scenario reading a surface.                                           *)
(***************************************************************************)
AtomicReaders == {"getRowCount", "getHeaders", "getCellText", "getRowData",
                  "getColumnAText", "getColumnBText"}
LoopReaders == {"getAllTableData", "getColumnData",
                "findRowIndexByCellContent", "findRowByContent",
                "getDownloadableFiles"}
Readers == AtomicReaders \cup LoopReaders

\* The page each reader's page object is bound to.
PageOf(op) ==
    CASE op = "getDownloadableFiles" -> "/download"
      [] op \in {"getColumnAText", "getColumnBText"} -> "/drag-and-drop"
      [] OTHER -> "/tables"

RowArgs(op) == IF op \in {"getCellText", "getRowData"}
               THEN 0..MaxRows ELSE {0}
ColArgs(op) ==
    IF op \in {"getCellText", "getColumnData", "findRowIndexByCellContent"}
    THEN Widths ELSE {0}
TextArgs(op) ==
    IF op \in {"findRowIndexByCellContent", "findRowByContent"}
    THEN SearchTexts ELSE {<<>>}

SameCall(a, b) == a.op = b.op /\ a.r = b.r /\ a.c = b.c /\ a.s = b.s

Reading == tcall.st = "running"

Perms(t) ==
    {[k \in DOMAIN t |-> t[f[k]]] :
        f \in {g \in [DOMAIN t -> DOMAIN t] :
                  \A x, y \in DOMAIN t : g[x] = g[y] => x = y}}

TblInit ==
    /\ url \in {"/tables", "/download", "/drag-and-drop"}
    /\ table \in IF url = "/tables" THEN Tables ELSE {<<>>}
    /\ headers = IF url = "/tables" THEN << <<"a">>, <<" ", "b">> >> ELSE <<>>
    /\ links \in IF url = "/download" THEN SeqsUpTo(Texts, MaxRows) ELSE {<<>>}
    /\ columns = IF url = "/drag-and-drop" THEN << <<"a">>, <<"b">> >>
                 ELSE <<>>
    /\ sortPending = FALSE
    /\ tcall = NoTCall
    /\ last = NoLast

\* The scenario calls a reader of the page object of its page.
StartRead ==
    /\ tcall.st = "idle"
    /\ \E op \in Readers : \E r \in RowArgs(op) : \E c \in ColArgs(op) :
       \E s \in TextArgs(op) :
          /\ PageOf(op) = url
          /\ tcall' = [NoTCall EXCEPT !.op = op, !.r = r, !.c = c, !.s = s,
                                      !.st = "running"]
          /\ last' = IF SameCall(last, tcall') THEN last ELSE NoLast
    /\ UNCHANGED <<url, table, headers, links, columns, sortPending>>
    /\ UNCHANGED <<evVars, othVars>>

\* A reader that awaits one driver call.
ReadOnce ==
    /\ Reading
    /\ tcall.op \in AtomicReaders
    /\ LET res ==
            CASE tcall.op = "getRowCount" -> Returned(getRowCount(table))
              [] tcall.op = "getHeaders" -> Returned(getHeaders(headers))
              [] tcall.op = "getCellText" ->
                    getCellText(table, tcall.r, tcall.c)
              [] tcall.op = "getRowData" ->
                    Returned(getRowData(table, tcall.r))
              [] tcall.op = "getColumnAText" ->
                    Returned(getColumnAText(columns))
              [] tcall.op = "getColumnBText" ->
                    Returned(getColumnBText(columns))
       IN  tcall' = [tcall EXCEPT !.st = res.st, !.val = res.val]
    /\ UNCHANGED <<url, table, headers, links, columns, sortPending, last>>
    /\ UNCHANGED <<evVars, othVars>>

\* await this.tableRows.all() / this.getRowCount() / links.count(): the
\* number of elements that match now; the elements themselves are looked up
\* again, by position, on every later use.
ReadCount ==
    /\ Reading
    /\ tcall.op \in LoopReaders
    /\ tcall.phase = "count"
    /\ tcall' = [tcall EXCEPT
                    !.phase = "loop",
                    !.n = IF tcall.op = "getDownloadableFiles"
                          THEN Len(links) ELSE getRowCount(table),
                    !.i = 0,
                    !.acc = NewArray]
    /\ UNCHANGED <<url, table, headers, links, columns, sortPending, last>>
    /\ UNCHANGED <<evVars, othVars>>

\* One iteration of the reader's loop: one awaited read of element i.
ReadNext ==
    /\ Reading
    /\ tcall.op \in LoopReaders
    /\ tcall.phase = "loop"
    /\ tcall.i < tcall.n
    /\ \/ /\ tcall.op \in {"getAllTableData", "getColumnData"}
          /\ tcall' = [tcall EXCEPT
                          !.acc = Append(@, getRowData(table, tcall.i)),
                          !.i = @ + 1]
       \/ /\ tcall.op = "findRowIndexByCellContent"
          /\ LET cell == getCellText(table, tcall.i, tcall.c)
             IN  tcall' =
                    IF cell.st = "threw"
                    THEN [tcall EXCEPT !.st = "threw", !.val = cell.val]
                    ELSE IF Includes(cell.val, tcall.s)
                    THEN [tcall EXCEPT !.st = "returned", !.val = tcall.i]
                    ELSE [tcall EXCEPT !.i = @ + 1]
       \/ /\ tcall.op = "findRowByContent"
          /\ LET row == rowTextContent(table, tcall.i)
             IN  tcall' =
                    IF row.st = "threw"
                    THEN [tcall EXCEPT !.st = "threw", !.val = row.val]
                    ELSE IF row.val # Null /\ Includes(row.val, tcall.s)
                    THEN [tcall EXCEPT !.st = "returned", !.val = tcall.i]
                    ELSE [tcall EXCEPT !.i = @ + 1]
       \/ /\ tcall.op = "getDownloadableFiles"
          /\ LET text == linkInnerText(links, tcall.i)
             IN  tcall' =
                    IF text.st = "threw"
                    THEN [tcall EXCEPT !.st = "threw", !.val = text.val]
                    ELSE [tcall EXCEPT !.acc = Append(@, Trim(text.val)),
                                       !.i = @ + 1]
    /\ UNCHANGED <<url, table, headers, links, columns, sortPending, last>>
    /\ UNCHANGED <<evVars, othVars>>

\* The loop is over: return data / filenames / -1.
ReadEnd ==
    /\ Reading
    /\ tcall.op \in LoopReaders
    /\ tcall.phase = "loop"
    /\ tcall.i >= tcall.n
    /\ tcall' = [tcall EXCEPT
                    !.st = "returned",
                    !.val = CASE tcall.op = "getColumnData" ->
                                    getColumnData(tcall.acc, tcall.c)
                              [] tcall.op \in {"findRowIndexByCellContent",
                                               "findRowByContent"} -> NotFound
                              [] OTHER -> tcall.acc]
    /\ UNCHANGED <<url, table, headers, links, columns, sortPending, last>>
    /\ UNCHANGED <<evVars, othVars>>

\* The scenario takes the result (or the error) and goes on.
FinishRead ==
    /\ tcall.st \in {"returned", "threw"}
    /\ last' = IF tcall.mutated THEN NoLast
               ELSE [op |-> tcall.op, r |-> tcall.r, c |-> tcall.c,
                     s |-> tcall.s, st |-> tcall.st, val |-> tcall.val]
    /\ tcall' = NoTCall
    /\ UNCHANGED <<url, table, headers, links, columns, sortPending>>
    /\ UNCHANGED <<evVars, othVars>>

\* clickColumnHeader(name): the click returns; the site re-renders the
\* table some time later.
clickColumnHeader ==
    /\ tcall.st = "idle"
    /\ url = "/tables"
    /\ headers # <<>>
    /\ ~sortPending
    /\ sortPending' = TRUE
    /\ UNCHANGED <<url, table, headers, links, columns, tcall, last>>
    /\ UNCHANGED <<evVars, othVars>>

\* The site re-renders the table with its rows in the new order.
Rerender ==
    /\ sortPending
    /\ sortPending' = FALSE
    /\ \E t \in Perms(table) :
          /\ table' = t
          /\ IF t = table
             THEN UNCHANGED <<tcall, last>>
             ELSE /\ last' = NoLast
                  /\ tcall' = IF tcall.st = "idle" THEN tcall
                              ELSE [tcall EXCEPT !.mutated = TRUE]
    /\ UNCHANGED <<url, headers, links, columns>>
    /\ UNCHANGED <<evVars, othVars>>

\* source.dragTo(target): the site's drop handler exchanges the contents of
\* the dragged column and the column it is dropped on.
dragTo_copy(cols, source, target) == [cols EXCEPT ![target] = cols[source]]
dragTo_nothing(cols, source, target) == cols
dragTo(cols, source, target) ==
    [cols EXCEPT ![source] = cols[target], ![target] = cols[source]]

\* dragAtoB(): await this.columnA.dragTo(this.columnB).
dragAtoB ==
    /\ tcall.st = "idle"
    /\ url = "/drag-and-drop"
    /\ Len(dragged) < MaxDrags
    /\ columns' = dragTo(columns, 1, 2)
    /\ dragged' = Append(dragged, "AtoB")
    /\ last' = NoLast
    /\ UNCHANGED <<url, table, headers, links, sortPending, tcall>>
    /\ UNCHANGED <<evVars, findVars, authVars, isoVars, lateVars>>

\* dragBtoA(): await this.columnB.dragTo(this.columnA).
dragBtoA ==
    /\ tcall.st = "idle"
    /\ url = "/drag-and-drop"
    /\ Len(dragged) < MaxDrags
    /\ columns' = dragTo(columns, 2, 1)
    /\ dragged' = Append(dragged, "BtoA")
    /\ last' = NoLast
    /\ UNCHANGED <<url, table, headers, links, sortPending, tcall>>
    /\ UNCHANGED <<evVars, findVars, authVars, isoVars, lateVars>>

\* expect(this.columnA).toContainText("A") and (this.columnB) ("B"); the
\* page shows the headers as the texts a and b.
expectOriginalState(cols) ==
    Includes(cols[1], <<"a">>) /\ Includes(cols[2], <<"b">>)
expectSwapped(cols) ==
    Includes(cols[1], <<"b">>) /\ Includes(cols[2], <<"a">>)

TblNext ==
    \/ StartRead \/ ReadOnce \/ ReadCount \/ ReadNext \/ ReadEnd
    \/ FinishRead \/ clickColumnHeader \/ Rerender \/ dragAtoB \/ dragBtoA

(***************************************************************************)
(* WindowsPage.findWindowByTitle / findWindowByURL.                        *)
(***************************************************************************)
\* What a page can show: a blank page, the /windows page, the new window.
Blank == [title |-> <<>>, url |-> <<"b">>]
Docs == {Blank,
         [title |-> <<"a">>, url |-> <<"a">>],
         [title |-> <<"a", "b">>, url |-> <<"a", "b">>]}
PageIds == 1..MaxPages
FindArgs == {<<>>, <<"a">>, <<"a", "b">>, <<"b", "b">>}

NoFCall == [op |-> "none", arg |-> <<>>, kind |-> "string", st |-> "idle",
            snap |-> <<>>, i |-> 0, val |-> NoPage]

\* The kinds of pattern: a string, a RegExp, a RegExp with the g flag.
Kinds(op) == IF op = "findWindowByURL" THEN {"string", "regex", "regexG"}
             ELSE {"string"}

\* RegExp.prototype.test of a literal pattern s: without the g flag the
\* search starts at 0; with it the search starts at lastIndex, which a match
\* sets to the end of the match and a failure resets to 0.
Test(str, s, li) ==
    LET ks == {k \in li..(Len(str) - Len(s)) :
                  SubSeq(str, k + 1, k + Len(s)) = s}
    IN  IF ks = {} THEN [ok |-> FALSE, li |-> 0]
        ELSE [ok |-> TRUE,
              li |-> (CHOOSE k \in ks : \A j \in ks : k <= j) + Len(s)]

\* for (const page of pages) { ... } of findWindowByURL, from the i-th page.
RECURSIVE findWindowByURL(_, _, _, _, _)
findWindowByURL(snap, i, kind, s, li) ==
    IF i > Len(snap) THEN [val |-> NoPage, li |-> li]
    ELSE LET u == docs[snap[i]].url
         IN  IF kind = "regexG"
             THEN LET t == Test(u, s, li)
                  IN  IF t.ok THEN [val |-> snap[i], li |-> t.li]
                      ELSE findWindowByURL(snap, i + 1, kind, s, t.li)
             ELSE IF Includes(u, s) THEN [val |-> snap[i], li |-> li]
                  ELSE findWindowByURL(snap, i + 1, kind, s, li)

FindIdle ==
    /\ docs = [p \in PageIds |-> Blank]
    /\ fcall = NoFCall
    /\ lastIndex = 0

\* The open pages, in creation order, once the scenario has opened some
\* windows and closed some.
PageLists == {SubSeq([k \in 1..MaxPages |-> k], a, b) :
                 a \in 1..MaxPages, b \in 0..MaxPages}

\* The scenario calls findWindowByTitle(title) or findWindowByURL(pattern);
\* a RegExp is a new object or the one of the previous call.
StartFind ==
    /\ fcall.st = "idle"
    /\ \E op \in {"findWindowByTitle", "findWindowByURL"} :
       \E a \in FindArgs : \E k \in Kinds(op) :
          fcall' = [NoFCall EXCEPT !.op = op, !.arg = a, !.kind = k,
                                   !.st = "running", !.snap = pages, !.i = 1]
    /\ lastIndex' \in {0, lastIndex}
    /\ UNCHANGED <<docs, evVars, tblVars, authVars, dragged, isoVars, lateVars>>

\* One iteration of findWindowByTitle: const pageTitle = await page.title().
FindTitleNext ==
    /\ fcall.st = "running"
    /\ fcall.op = "findWindowByTitle"
    /\ fcall.i <= Len(fcall.snap)
    /\ LET pageTitle == docs[fcall.snap[fcall.i]].title
       IN  fcall' = IF Includes(pageTitle, fcall.arg)
                    THEN [fcall EXCEPT !.st = "returned",
                                       !.val = fcall.snap[fcall.i]]
                    ELSE [fcall EXCEPT !.i = @ + 1]
    /\ UNCHANGED <<docs, lastIndex, evVars, tblVars, authVars, dragged, isoVars, lateVars>>

\* The loop of findWindowByTitle is over: return null.
FindTitleEnd ==
    /\ fcall.st = "running"
    /\ fcall.op = "findWindowByTitle"
    /\ fcall.i > Len(fcall.snap)
    /\ fcall' = [fcall EXCEPT !.st = "returned", !.val = NoPage]
    /\ UNCHANGED <<docs, lastIndex, evVars, tblVars, authVars, dragged, isoVars, lateVars>>

\* findWindowByURL awaits nothing: its loop runs in one step.
FindURL ==
    /\ fcall.st = "running"
    /\ fcall.op = "findWindowByURL"
    /\ LET res == findWindowByURL(fcall.snap, 1, fcall.kind, fcall.arg,
                                  lastIndex)
       IN  /\ fcall' = [fcall EXCEPT !.st = "returned", !.val = res.val]
           /\ lastIndex' = res.li
    /\ UNCHANGED <<docs, evVars, tblVars, authVars, dragged, isoVars, lateVars>>

\* The scenario takes the page (or null) and goes on.
FinishFind ==
    /\ fcall.st = "returned"
    /\ fcall' = NoFCall
    /\ UNCHANGED <<docs, lastIndex, evVars, tblVars, authVars, dragged, isoVars, lateVars>>

FindNext ==
    \/ StartFind \/ FindTitleNext \/ FindTitleEnd \/ FindURL \/ FinishFind

(***************************************************************************)
(* Test data (data/users) and the site's auth pages.                       *)
(***************************************************************************)
MaxNow == 1
MaxIssued == 2

NoUser == <<"undefined">>
VALID_USER == [username |-> <<"p", "r", "a", "c", "t", "i", "c", "e">>,
               password |-> "SuperSecretPassword!"]
wrongUsername == <<"w", "r", "o", "n", "g", "u", "s", "e", "r">>
emptyString == <<>>
Prefixes == {<<"f", "u", "l", "l", "f", "l", "o", "w">>}

\* Number.prototype.toString
RECURSIVE Digits(_)
Digits(n) ==
    LET d == <<"0", "1", "2", "3", "4", "5", "6", "7", "8", "9">>
    IN  IF n < 10 THEN <<d[n + 1]>>
        ELSE Digits(n \div 10) \o <<d[(n % 10) + 1]>>

\* `${prefix}-${Date.now()}`
uniqueUsername(prefix) == prefix \o <<"-">> \o Digits(now)

MESSAGES == [loginSuccess |-> "You logged into a secure area!",
             logoutSuccess |-> "You logged out of the secure area!",
             invalidUsername |-> "Your username is invalid!",
             invalidPassword |-> "Your password is invalid!",
             registerSuccess |->
                 "Successfully registered, you can log in now.",
             passwordMismatch |-> "Passwords do not match."]

Passwords == {"", "password", "passwordd"}
NoForm == [u |-> emptyString, p |-> "", c |-> ""]
Account(u, p) == [username |-> u, password |-> p]
Registered(u) == \E a \in users : a.username = u

\* What the site answers to the register form.
SubmitRegister(f) ==
    IF f.u = emptyString \/ f.p = "" \/ f.c = ""
    THEN [surface |-> "/register", flash |-> "All fields are required.",
          users |-> users]
    ELSE IF f.p # f.c
    THEN [surface |-> "/register", flash |-> MESSAGES.passwordMismatch,
          users |-> users]
    ELSE IF Registered(f.u)
    THEN [surface |-> "/register", flash |-> "Username is already taken.",
          users |-> users]
    ELSE [surface |-> "/login", flash |-> MESSAGES.registerSuccess,
          users |-> users \cup {Account(f.u, f.p)}]

\* What the site answers to the login form.
SubmitLogin(f) ==
    IF ~Registered(f.u)
    THEN [surface |-> "/login", flash |-> MESSAGES.invalidUsername,
          session |-> session]
    ELSE IF Account(f.u, f.p) \notin users
    THEN [surface |-> "/login", flash |-> MESSAGES.invalidPassword,
          session |-> session]
    ELSE [surface |-> "/secure", flash |-> MESSAGES.loginSuccess,
          session |-> f.u]

\* Where a navigation to path ends: /secure needs a session.
Landing(path) ==
    IF path = "/secure" /\ session = NoUser THEN "/login" ELSE path

(***************************************************************************)
(* RegisterPage and LoginPage: each operation as its statements.           *)
(***************************************************************************)
RegisterPage_goto == <<"gotoRegister">>
register_confirmAsPassword ==
    <<"fillUsername", "fillPasswordExact", "fillConfirmAsPassword",
      "clickRegister">>
register ==
    <<"fillUsername", "fillPasswordExact", "fillConfirm", "clickRegister">>
expectRedirectedToLogin == <<"expectLoginURL">>
LoginPage_goto == <<"gotoLogin">>
fillUsername == <<"fillUsername">>
fillPassword == <<"fillPassword">>
clickLogin == <<"clickLogin">>
login_noGoto == <<"fillUsername", "fillPassword", "clickLogin">>
login == <<"gotoLogin", "fillUsername", "fillPassword", "clickLogin">>
expectOnSecurePage == <<"expectSecureURL", "expectLogoutVisible">>
logout == <<"clickLogout", "expectLoginURL">>
gotoSecure == <<"gotoSecure">>

AuthOps == {"RegisterPage_goto", "register", "expectRedirectedToLogin",
            "LoginPage_goto", "fillUsername", "fillPassword", "clickLogin",
            "login", "expectOnSecurePage", "logout", "gotoSecure"}

AuthProgram(op) ==
    CASE op = "RegisterPage_goto" -> RegisterPage_goto
      [] op = "register" -> register
      [] op = "expectRedirectedToLogin" -> expectRedirectedToLogin
      [] op = "LoginPage_goto" -> LoginPage_goto
      [] op = "fillUsername" -> fillUsername
      [] op = "fillPassword" -> fillPassword
      [] op = "clickLogin" -> clickLogin
      [] op = "login" -> login
      [] op = "expectOnSecurePage" -> expectOnSecurePage
      [] op = "logout" -> logout
      [] op = "gotoSecure" -> gotoSecure
      [] OTHER -> <<>>

NoName == [name |-> NoUser, used |-> FALSE]
NoACall == [op |-> "none", st |-> "idle", ip |-> 0, u |-> emptyString,
            p |-> "", c |-> "", fresh |-> FALSE, err |-> "none"]

\* The arguments the scenario passes.
Generated == IF username.name = NoUser THEN {} ELSE {username.name}
UserArgs(op) ==
    CASE op = "register" -> {emptyString} \cup Generated
      [] op = "login" ->
            {emptyString, VALID_USER.username, wrongUsername} \cup Generated
      [] op = "fillUsername" -> {emptyString, VALID_USER.username}
      [] OTHER -> {emptyString}
PasswordArgs(op) ==
    CASE op = "register" -> {"", "password"}
      [] op = "login" -> {"password", VALID_USER.password}
      [] op = "fillPassword" -> {"", VALID_USER.password}
      [] OTHER -> {""}
ConfirmArgs(op) == IF op = "register" THEN Passwords ELSE {""}

AStmt == IF acall.st = "running" /\ acall.ip <= Len(AuthProgram(acall.op))
         THEN AuthProgram(acall.op)[acall.ip] ELSE "end"
ANext(c) == [c EXCEPT !.ip = @ + 1]
AThrow(c, e) == [c EXCEPT !.st = "threw", !.err = e]

\* The surfaces on which each statement finds its element: the username
\* label is on both forms; getByLabel("Password") without exact matches two
\* fields on /register; the Logout link is on /secure.
Actionable(stmt) ==
    CASE stmt = "fillUsername" -> surface \in {"/login", "/register"}
      [] stmt = "fillPasswordExact" -> surface \in {"/login", "/register"}
      [] stmt = "fillPassword" -> surface = "/login"
      [] stmt \in {"fillConfirm", "fillConfirmAsPassword"} ->
            surface = "/register"
      [] stmt = "clickRegister" -> surface = "/register"
      [] stmt = "clickLogin" -> surface = "/login"
      [] stmt \in {"clickLogout", "expectLogoutVisible"} ->
            surface = "/secure"
      [] stmt = "expectLoginURL" -> surface = "/login"
      [] stmt = "expectSecureURL" -> surface = "/secure"
      [] OTHER -> TRUE

AuthIdle ==
    /\ surface = "about:blank"
    /\ form = NoForm
    /\ session = NoUser
    /\ flash = ""
    /\ users = {VALID_USER}
    /\ acall = NoACall
    /\ now = 0
    /\ username = NoName
    /\ issued = EmptyBag


nonAuthVars == <<evVars, tblVars, findVars, dragged, isoVars, lateVars>>

(***************************************************************************)
(* An auth scenario, the clock and the other runs of the suite.            *)
(***************************************************************************)
\* const username = uniqueUsername(prefix)
GenUsername ==
    /\ acall.st = "idle"
    /\ BagCardinality(issued) < MaxIssued
    /\ \E prefix \in Prefixes :
          /\ username' = [name |-> uniqueUsername(prefix), used |-> FALSE]
          /\ issued' = issued (+) SetToBag({uniqueUsername(prefix)})
    /\ UNCHANGED <<surface, form, session, flash, users, acall, now>>
    /\ UNCHANGED nonAuthVars

\* The scenario calls an operation of RegisterPage or LoginPage.
StartAuth ==
    /\ acall.st = "idle"
    /\ \E op \in AuthOps : \E u \in UserArgs(op) : \E p \in PasswordArgs(op) :
       \E c \in ConfirmArgs(op) :
          acall' = [NoACall EXCEPT
                       !.op = op, !.st = "running", !.ip = 1,
                       !.u = u, !.p = p, !.c = c,
                       !.fresh = (op = "register" /\ u = username.name
                                    /\ ~username.used)]
    /\ UNCHANGED <<surface, form, session, flash, users, now, username,
                   issued>>
    /\ UNCHANGED nonAuthVars

\* await this.page.goto(path)
AuthGoto ==
    /\ AStmt \in {"gotoRegister", "gotoLogin", "gotoSecure"}
    /\ LET path == CASE AStmt = "gotoRegister" -> "/register"
                     [] AStmt = "gotoLogin" -> "/login"
                     [] OTHER -> "/secure"
       IN  surface' = Landing(path)
    /\ form' = NoForm
    /\ flash' = ""
    /\ acall' = ANext(acall)
    /\ UNCHANGED <<session, users, now, username, issued>>
    /\ UNCHANGED nonAuthVars

\* await input.fill(value)
AuthFill ==
    /\ AStmt \in {"fillUsername", "fillPassword", "fillPasswordExact",
                  "fillConfirm", "fillConfirmAsPassword"}
    /\ Actionable(AStmt)
    /\ form' = CASE AStmt = "fillUsername" -> [form EXCEPT !.u = acall.u]
                 [] AStmt = "fillConfirm" -> [form EXCEPT !.c = acall.c]
                 [] AStmt = "fillConfirmAsPassword" ->
                        [form EXCEPT !.c = acall.p]
                 [] OTHER -> [form EXCEPT !.p = acall.p]
    /\ acall' = ANext(acall)
    /\ UNCHANGED <<surface, session, flash, users, now, username, issued>>
    /\ UNCHANGED nonAuthVars

\* await this.registerButton.click(): the site answers to the form.
AuthClickRegister ==
    /\ AStmt = "clickRegister"
    /\ Actionable(AStmt)
    /\ LET res == SubmitRegister(form)
       IN  /\ surface' = res.surface
           /\ flash' = res.flash
           /\ users' = res.users
    /\ form' = NoForm
    /\ username' = IF form.u = username.name
                   THEN [username EXCEPT !.used = TRUE] ELSE username
    /\ acall' = ANext(acall)
    /\ UNCHANGED <<session, now, issued>>
    /\ UNCHANGED nonAuthVars

\* await this.loginButton.click(): the site answers to the form.
AuthClickLogin ==
    /\ AStmt = "clickLogin"
    /\ Actionable(AStmt)
    /\ LET res == SubmitLogin(form)
       IN  /\ surface' = res.surface
           /\ flash' = res.flash
           /\ session' = res.session
    /\ form' = NoForm
    /\ acall' = ANext(acall)
    /\ UNCHANGED <<users, now, username, issued>>
    /\ UNCHANGED nonAuthVars

\* await this.logoutButton.click(): the site ends the session.
AuthClickLogout ==
    /\ AStmt = "clickLogout"
    /\ Actionable(AStmt)
    /\ surface' = "/login"
    /\ session' = NoUser
    /\ flash' = MESSAGES.logoutSuccess
    /\ form' = NoForm
    /\ acall' = ANext(acall)
    /\ UNCHANGED <<users, now, username, issued>>
    /\ UNCHANGED nonAuthVars

\* await expect(...).toHaveURL(...) / toBeVisible() that passes.
AuthExpect ==
    /\ AStmt \in {"expectLoginURL", "expectSecureURL", "expectLogoutVisible"}
    /\ Actionable(AStmt)
    /\ acall' = ANext(acall)
    /\ UNCHANGED <<surface, form, session, flash, users, now, username,
                   issued>>
    /\ UNCHANGED nonAuthVars

\* The element of the statement is not on the surface: the action (or the
\* assertion) times out.
AuthTimeout ==
    /\ acall.st = "running"
    /\ AStmt # "end"
    /\ ~Actionable(AStmt)
    /\ acall' = AThrow(acall, "TimeoutError")
    /\ UNCHANGED <<surface, form, session, flash, users, now, username,
                   issued>>
    /\ UNCHANGED nonAuthVars

\* The operation returns.
AuthReturn ==
    /\ acall.st = "running"
    /\ AStmt = "end"
    /\ acall' = [acall EXCEPT !.st = "returned"]
    /\ UNCHANGED <<surface, form, session, flash, users, now, username,
                   issued>>
    /\ UNCHANGED nonAuthVars

\* The scenario goes on after an operation that returned.
AuthContinue ==
    /\ acall.st = "returned"
    /\ acall' = NoACall
    /\ UNCHANGED <<surface, form, session, flash, users, now, username,
                   issued>>
    /\ UNCHANGED nonAuthVars

\* The scenario is over; the next one gets a fresh page and context, on the
\* same site.
NewAuthScenario ==
    /\ acall.st \in {"idle", "threw"}
    /\ surface # "about:blank" \/ acall.st = "threw"
                               \/ username # NoName
    /\ surface' = "about:blank"
    /\ form' = NoForm
    /\ session' = NoUser
    /\ flash' = ""
    /\ acall' = NoACall
    /\ username' = NoName
    /\ UNCHANGED <<users, now, issued>>
    /\ UNCHANGED nonAuthVars

\* A millisecond passes.  (Only uniqueUsername reads the clock, and only
\* the clicks read the accounts: a tick or a registration by another run
\* during an operation has the effect of one just before it.)
ClockTick ==
    /\ acall.st = "idle"
    /\ now < MaxNow
    /\ now' = now + 1
    /\ UNCHANGED <<surface, form, session, flash, users, acall, username,
                   issued>>
    /\ UNCHANGED nonAuthVars

\* Another run of the suite (a parallel worker, another machine) registers
\* the username it generated.
OtherRegister ==
    /\ acall.st = "idle"
    /\ BagCardinality(issued) < MaxIssued
    /\ \E prefix \in Prefixes :
          /\ issued' = issued (+) SetToBag({uniqueUsername(prefix)})
          /\ users' = SubmitRegister([u |-> uniqueUsername(prefix),
                                      p |-> "password",
                                      c |-> "password"]).users
    /\ UNCHANGED <<surface, form, session, flash, acall, now, username>>
    /\ UNCHANGED nonAuthVars

AuthNext ==
    \/ GenUsername \/ StartAuth \/ AuthGoto \/ AuthFill \/ AuthClickRegister
    \/ AuthClickLogin \/ AuthClickLogout \/ AuthExpect \/ AuthTimeout
    \/ AuthReturn \/ AuthContinue \/ NewAuthScenario \/ ClockTick
    \/ OtherRegister

(***************************************************************************)
(* A test of soft assertions (TC-FV04).                                    *)
(*   await page.goto("/login")                                             *)
(*   await expect.soft(username).toBeVisible()                             *)
(*   await expect.soft(password).toBeVisible()                             *)
(*   await expect.soft(loginButton).toBeVisible()                          *)
(***************************************************************************)
TC_FV04 == <<"goto", "soft", "soft", "soft">>

NoSTest == [st |-> "idle", ip |-> 0, visible |-> {}, evaluated |-> {},
            errors |-> {}, gotoFailed |-> FALSE, elapsed |-> 0]

oldVars == <<evVars, tblVars, findVars, authVars, dragged, isoVars>>
nonSoftVars == <<oldVars, hcall, wcall, dcall, mcall>>

\* expect.soft(locator).toBeVisible(): a failure is recorded in the test's
\* errors and the test goes on with its next statement.
expectSoft_hard(t, ok) ==
    IF ok THEN [t EXCEPT !.ip = @ + 1, !.evaluated = @ \cup {t.ip}]
    ELSE [t EXCEPT !.st = "failed", !.evaluated = @ \cup {t.ip},
                   !.errors = @ \cup {t.ip}]
expectSoft(t, ok) ==
    [t EXCEPT !.ip = @ + 1, !.evaluated = @ \cup {t.ip},
              !.errors = IF ok THEN @ ELSE @ \cup {t.ip}]

SStmt ==
    IF stest.st = "running" /\ stest.ip <= Len(TC_FV04)
    THEN TC_FV04[stest.ip] ELSE "none"

\* The test's timeout has not been reached.
InTime == stest.elapsed < Ticks(timeout)

\* The runner starts the test.
StartSoftTest ==
    /\ stest.st = "idle"
    /\ stest' = [NoSTest EXCEPT !.st = "running", !.ip = 1]
    /\ UNCHANGED nonSoftVars

\* await page.goto("/login"): the navigation completes after some time and
\* the page shows some of the three elements, or it rejects and the test
\* ends there.
SoftGoto ==
    /\ SStmt = "goto"
    /\ InTime
    /\ \E d \in 0..Ticks(navigationTimeout) :
         \/ \E v \in SUBSET {k \in DOMAIN TC_FV04 : TC_FV04[k] = "soft"} :
              stest' = [stest EXCEPT !.ip = @ + 1, !.visible = v,
                                     !.elapsed = @ + d]
         \/ /\ d = Ticks(navigationTimeout)
            /\ stest' = [stest EXCEPT !.st = "failed", !.gotoFailed = TRUE,
                                      !.elapsed = @ + d]
    /\ UNCHANGED nonSoftVars

\* await expect.soft(...).toBeVisible(): the element is visible, or the
\* assertion polls until the expect timeout and fails.
SoftExpect ==
    /\ SStmt = "soft"
    /\ InTime
    /\ LET ok == stest.ip \in stest.visible
       IN  \E d \in IF ok THEN {0} ELSE {0, 1} :
             stest' = [expectSoft(stest, ok) EXCEPT !.elapsed = @ + d]
    /\ UNCHANGED nonSoftVars

\* The test function returns: the test is failed when its errors are not
\* empty.
SoftEnd ==
    /\ stest.st = "running"
    /\ stest.ip > Len(TC_FV04)
    /\ InTime
    /\ stest' = [stest EXCEPT
                    !.st = IF stest.errors = {} THEN "passed" ELSE "failed"]
    /\ UNCHANGED nonSoftVars

\* The test's timeout (timeout: 30_000) ends the test wherever it is.
SoftTestTimeout ==
    /\ stest.st = "running"
    /\ ~InTime
    /\ stest' = [stest EXCEPT !.st = "timedOut"]
    /\ UNCHANGED nonSoftVars

\* The next test of the file.
NextSoftTest ==
    /\ stest.st \in {"passed", "failed", "timedOut"}
    /\ stest' = NoSTest
    /\ UNCHANGED nonSoftVars

SoftNext ==
    \/ StartSoftTest
    \/ SoftGoto
    \/ SoftExpect
    \/ SoftEnd
    \/ SoftTestTimeout
    \/ NextSoftTest

(***************************************************************************)
(* The scenarios of the upload and download describe blocks, with the      *)
(* helpers blockAds and dismissAnyAds, and the ad wait of TC-DD12.         *)
(*   route         await page.route(pattern, handler)                      *)
(*   goto          await pageObject.goto()                                 *)
(*   tryClick      try { await ... .click({ timeout: 1500 }) } catch {}    *)
(*   waitCatch     await page.waitForFunction(...).catch(() => {})         *)
(*   anything else an awaited command outside any try                      *)
(***************************************************************************)
blockAds == <<"route", "route", "route", "route", "route", "route", "route">>
dismissAnyAds == <<"tryClick", "tryClick", "tryClick">>

FileUpload_beforeEach_gotoFirst == <<"goto">> \o blockAds
FileUpload_beforeEach == blockAds \o <<"goto">>
FileDownload_beforeEach == blockAds \o <<"goto">> \o dismissAnyAds
TC_CYCLE01 ==
    blockAds \o <<"goto">> \o dismissAnyAds
        \o <<"getDownloadableFiles", "downloadAndReadText">>
TC_DD12 == <<"press", "scrollIntoViewIfNeeded", "waitCatch", "boundingBox">>

HScenarios == {"FileUpload_beforeEach", "FileDownload_beforeEach",
               "TC_CYCLE01", "TC_DD12"}
HProgram(op) ==
    CASE op = "FileUpload_beforeEach" -> FileUpload_beforeEach
      [] op = "FileDownload_beforeEach" -> FileDownload_beforeEach
      [] op = "TC_CYCLE01" -> TC_CYCLE01
      [] op = "TC_DD12" -> TC_DD12
      [] OTHER -> <<>>

\* The statements whose rejection the code catches and drops.
Caught_never(stmt) == FALSE
Caught(stmt) == stmt \in {"tryClick", "waitCatch"}

NoHCall == [op |-> "none", st |-> "idle", ip |-> 0, routes |-> 0,
            routesAtGoto |-> NotFound, attempted |-> {}, timedOut |-> {}]

HStmt == IF hcall.st = "running" /\ hcall.ip <= Len(HProgram(hcall.op))
         THEN HProgram(hcall.op)[hcall.ip] ELSE "end"

nonHVars == <<oldVars, stest, wcall, dcall, mcall>>

\* The runner starts the scenario on a fresh page.
StartScenario ==
    /\ hcall.st = "idle"
    /\ \E op \in HScenarios :
          hcall' = [NoHCall EXCEPT !.op = op, !.st = "running", !.ip = 1]
    /\ UNCHANGED nonHVars

\* The awaited statement completes: a route is registered, the page is
\* navigated with the routes registered so far, an element is clicked.
HDone ==
    /\ HStmt # "end"
    /\ hcall' = [hcall EXCEPT
                    !.ip = @ + 1,
                    !.attempted = @ \cup {hcall.ip},
                    !.routes = IF HStmt = "route" THEN @ + 1 ELSE @,
                    !.routesAtGoto = IF HStmt = "goto" /\ @ = NotFound
                                     THEN hcall.routes ELSE @]
    /\ UNCHANGED nonHVars

\* The awaited statement times out: the rejection is dropped where the code
\* catches it, and ends the scenario everywhere else.  A navigation that
\* timed out has made its requests.
HTimeout ==
    /\ HStmt \notin {"end", "route"}
    /\ hcall' = [hcall EXCEPT
                    !.ip = IF Caught(HStmt) THEN @ + 1 ELSE @,
                    !.st = IF Caught(HStmt) THEN @ ELSE "threw",
                    !.attempted = @ \cup {hcall.ip},
                    !.timedOut = @ \cup {hcall.ip},
                    !.routesAtGoto = IF HStmt = "goto" /\ @ = NotFound
                                     THEN hcall.routes ELSE @]
    /\ UNCHANGED nonHVars

\* The scenario's statements are done.
HReturn ==
    /\ hcall.st = "running"
    /\ HStmt = "end"
    /\ hcall' = [hcall EXCEPT !.st = "returned"]
    /\ UNCHANGED nonHVars

\* The next scenario.
HNewScenario ==
    /\ hcall.st \in {"returned", "threw"}
    /\ hcall' = NoHCall
    /\ UNCHANGED nonHVars

HNext ==
    \/ StartScenario
    \/ HDone
    \/ HTimeout
    \/ HReturn
    \/ HNewScenario

(***************************************************************************)
(* WindowsPage.switchToWindow.                                             *)
(***************************************************************************)
\* const pages = this.context.pages();
\* if (index >= pages.length) throw new Error(`Window ${index} does not exist`);
\* return pages[index];      (an index outside the array reads undefined,
\*                            which is no page)
switchToWindow(ps, index) ==
    IF index >= Len(ps)
    THEN [st |-> "threw", val |-> NoPage, err |-> "Window does not exist"]
    ELSE [st |-> "returned",
          val |-> IF index + 1 \in DOMAIN ps THEN ps[index + 1] ELSE NoPage,
          err |-> "none"]

\* The indices the scenario passes.
Indices == (0 - 1)..(MaxPages + 1)

NoWCall == [st |-> "idle", index |-> 0, val |-> NoPage, err |-> "none"]

nonWVars == <<oldVars, stest, hcall, dcall, mcall>>

\* The scenario calls switchToWindow(index); the call is synchronous.
CallSwitchToWindow ==
    /\ wcall.st = "idle"
    /\ \E index \in Indices :
         LET res == switchToWindow(pages, index)
         IN  wcall' = [st |-> res.st, index |-> index, val |-> res.val,
                       err |-> res.err]
    /\ UNCHANGED nonWVars

\* The scenario goes on (or is over, after the error).
WinContinue ==
    /\ wcall.st # "idle"
    /\ wcall' = NoWCall
    /\ UNCHANGED nonWVars

WinNext ==
    \/ CallSwitchToWindow
    \/ WinContinue

(***************************************************************************)
(* FileDownloadPage.downloadAndReadText / downloadAndReadBuffer.           *)
(*   1  const download = await this.downloadFileByName(filename)           *)
(*   2  const filePath = await download.path()                             *)
(*   3  if (!filePath) throw new Error("Download failed - no path returned")*)
(*   4  return fs.readFileSync(filePath[, "utf-8"])                        *)
(***************************************************************************)
DownloadReaders == {"downloadAndReadText", "downloadAndReadBuffer"}

\* The files of the download page and what each holds.
Filenames == {"some-file.txt", "some-file.json", "wdio.png"}
Stored(filename) ==
    CASE filename = "some-file.txt" -> <<"a", "b">>
      [] filename = "some-file.json" -> <<"{", "}">>
      [] OTHER -> <<"P", "N", "G">>

\* fs.readFileSync(path, "utf-8") gives a string, fs.readFileSync(path) the
\* bytes in a Buffer.
readFileSync(op, bytes) ==
    [type |-> IF op = "downloadAndReadText" THEN "string" ELSE "Buffer",
     data |-> bytes]

\* !filePath
NoPathReturned_never(filePath) == FALSE
NoPathReturned(filePath) == filePath = "null"

NoDCall == [op |-> "none", filename |-> "", st |-> "idle", ip |-> 0,
            filePath |-> "unset", reads |-> 0, artifacts |-> {},
            val |-> [type |-> "none", data |-> <<>>], err |-> "none"]

nonDVars == <<oldVars, stest, hcall, wcall, mcall>>

\* The scenario calls one of the two operations.
StartDownloadRead ==
    /\ dcall.st = "idle"
    /\ \E op \in DownloadReaders : \E f \in Filenames :
          dcall' = [NoDCall EXCEPT !.op = op, !.filename = f,
                                   !.st = "running", !.ip = 1,
                                   !.artifacts = dcall.artifacts]
    /\ UNCHANGED nonDVars

\* await this.downloadFileByName(filename): the download, or its error.
DownloadStarts ==
    /\ dcall.st = "running"
    /\ dcall.ip = 1
    /\ \/ dcall' = [dcall EXCEPT !.ip = 2]
       \/ dcall' = [dcall EXCEPT !.st = "threw", !.err = "TimeoutError"]
    /\ UNCHANGED nonDVars

\* await download.path(): the path of the artifact, stored in the session's
\* transient directory, or no path, or the rejection of a download that
\* failed.
PathResolves ==
    /\ dcall.st = "running"
    /\ dcall.ip = 2
    /\ \/ dcall' = [dcall EXCEPT !.ip = 3, !.filePath = "tmp",
                                 !.artifacts = @ \cup {dcall.filename}]
       \/ dcall' = [dcall EXCEPT !.ip = 3, !.filePath = "null"]
       \/ dcall' = [dcall EXCEPT !.st = "threw", !.err = "download failed"]
    /\ UNCHANGED nonDVars

\* if (!filePath) throw ...
CheckPath ==
    /\ dcall.st = "running"
    /\ dcall.ip = 3
    /\ dcall' = IF NoPathReturned(dcall.filePath)
                THEN [dcall EXCEPT
                         !.st = "threw",
                         !.err = "Download failed - no path returned"]
                ELSE [dcall EXCEPT !.ip = 4]
    /\ UNCHANGED nonDVars

\* return fs.readFileSync(filePath, ...): with no path the read itself
\* throws.
ReadFile ==
    /\ dcall.st = "running"
    /\ dcall.ip = 4
    /\ dcall' = IF dcall.filePath = "tmp" /\ dcall.filename \in dcall.artifacts
                THEN [dcall EXCEPT
                         !.st = "returned", !.reads = @ + 1,
                         !.val = readFileSync(dcall.op,
                                              Stored(dcall.filename))]
                ELSE [dcall EXCEPT !.st = "threw", !.reads = @ + 1,
                                   !.err = "TypeError"]
    /\ UNCHANGED nonDVars

\* The scenario goes on with the artifacts it has.
DownloadContinue ==
    /\ dcall.st = "returned"
    /\ dcall' = [NoDCall EXCEPT !.artifacts = dcall.artifacts]
    /\ UNCHANGED nonDVars

\* The scenario is over: its context is closed and the artifacts of the
\* session are deleted.
DownloadScenarioEnd ==
    /\ dcall.st \in {"idle", "threw"}
    /\ dcall # NoDCall
    /\ dcall' = NoDCall
    /\ UNCHANGED nonDVars

DownloadNext ==
    \/ StartDownloadRead
    \/ DownloadStarts
    \/ PathResolves
    \/ CheckPath
    \/ ReadFile
    \/ DownloadContinue
    \/ DownloadScenarioEnd

(***************************************************************************)
(* DragDropPage.manualDragDrop(source, target).                            *)
(***************************************************************************)
manualDragDrop ==
    <<"scrollIntoViewIfNeeded", "sourceBoundingBox", "targetBoundingBox",
      "checkBoxes", "mouse.move", "mouse.down", "waitForTimeout",
      "mouse.move", "mouse.move", "mouse.up">>

MouseCommands == {"mouse.move", "mouse.down", "mouse.up"}

NoMCall == [st |-> "idle", ip |-> 0, source |-> 1, target |-> 2,
            sourceVisible |-> TRUE, targetVisible |-> TRUE,
            sourceBox |-> FALSE, targetBox |-> FALSE,
            mouse |-> 0, pressed |-> FALSE, down |-> FALSE,
            cols |-> << <<"a">>, <<"b">> >>, err |-> "none"]

MStmt == IF mcall.st = "running" /\ mcall.ip <= Len(manualDragDrop)
         THEN manualDragDrop[mcall.ip] ELSE "end"

nonMVars == <<oldVars, stest, hcall, wcall, dcall>>

\* The scenario calls manualDragDrop with two of the column locators, each
\* of which resolves to a visible element or not.
StartManualDrag ==
    /\ mcall.st = "idle"
    /\ \E src, tgt \in {1, 2} : \E sv, tv \in BOOLEAN :
          /\ src = tgt => sv = tv
          /\ mcall' = [NoMCall EXCEPT !.st = "running", !.ip = 1,
                                      !.source = src, !.target = tgt,
                                      !.sourceVisible = sv,
                                      !.targetVisible = tv,
                                      !.cols = mcall.cols]
    /\ UNCHANGED nonMVars

\* An awaited driver call resolves.  boundingBox() gives null for an
\* element that is not visible.
ManualStep ==
    /\ MStmt \notin {"end", "checkBoxes"}
    /\ mcall' = [mcall EXCEPT
                    !.ip = @ + 1,
                    !.sourceBox = IF MStmt = "sourceBoundingBox"
                                  THEN mcall.sourceVisible ELSE @,
                    !.targetBox = IF MStmt = "targetBoundingBox"
                                  THEN mcall.targetVisible ELSE @,
                    !.mouse = IF MStmt \in MouseCommands THEN @ + 1 ELSE @,
                    !.pressed = IF MStmt = "mouse.down" THEN TRUE ELSE @,
                    !.down = CASE MStmt = "mouse.down" -> TRUE
                               [] MStmt = "mouse.up" -> FALSE
                               [] OTHER -> @,
                    !.cols = IF MStmt = "mouse.up"
                             THEN dragTo(@, mcall.source, mcall.target)
                             ELSE @]
    /\ UNCHANGED nonMVars

\* if (!sourceBox || !targetBox) throw new Error("Elements not visible ...")
ManualCheck ==
    /\ MStmt = "checkBoxes"
    /\ mcall' = IF ~mcall.sourceBox \/ ~mcall.targetBox
                THEN [mcall EXCEPT
                         !.st = "threw",
                         !.err = "Elements not visible for drag-drop"]
                ELSE [mcall EXCEPT !.ip = @ + 1]
    /\ UNCHANGED nonMVars

\* An awaited driver call rejects (a timeout, a page that closed or
\* navigated): the operation has no try around it and rejects with it.
ManualReject ==
    /\ MStmt \notin {"end", "checkBoxes"}
    /\ mcall' = [mcall EXCEPT !.st = "threw", !.err = "Error"]
    /\ UNCHANGED nonMVars

\* The operation returns.
ManualReturn ==
    /\ mcall.st = "running"
    /\ MStmt = "end"
    /\ mcall' = [mcall EXCEPT !.st = "returned"]
    /\ UNCHANGED nonMVars

\* The scenario goes on after the operation returned.
ManualContinue ==
    /\ mcall.st = "returned"
    /\ mcall' = [NoMCall EXCEPT !.cols = mcall.cols]
    /\ UNCHANGED nonMVars

\* The next scenario, on a fresh page.
ManualNewScenario ==
    /\ mcall.st \in {"idle", "threw"}
    /\ mcall # NoMCall
    /\ mcall' = NoMCall
    /\ UNCHANGED nonMVars

ManualNext ==
    \/ StartManualDrag
    \/ ManualStep
    \/ ManualCheck
    \/ ManualReject
    \/ ManualReturn
    \/ ManualContinue
    \/ ManualNewScenario

(***************************************************************************)
(* The runner: workers, the fixtures of a test and the beforeEach hook.    *)
(*   A worker is a process of its own: it loads the spec file, so it has   *)
(*   its own copy of the describe block's variable (let loginPage), and it *)
(*   runs the tests of the file one after the other.  The page fixture of  *)
(*   each test is a page of a browser context created for that test and    *)
(*   closed when the test ends.                                            *)
(***************************************************************************)
Workers == 1..MaxWorkers

NoTest == [phase |-> "none", id |-> 0, steps |-> 0]
NoPageObject == 0

\* The page fixture: a new page in a new context, with no cookies and no
\* listener, showing about:blank.
FreshContext ==
    [surface |-> "about:blank", session |-> FALSE, pending |-> 0,
     open |-> TRUE, actors |-> {}]

\* loginPage = new LoginPage(page): the variable is bound to a page object
\* of the page the hook was handed.
beforeEach_once(bound, page) == IF bound = NoPageObject THEN page ELSE bound
beforeEach(bound, page) == page

\* The runner starts the next test on a free worker and creates its
\* fixtures.
nonIsoVars == <<evVars, tblVars, findVars, authVars, dragged, lateVars>>

BeginTest(w) ==
    /\ running[w].phase = "none"
    /\ started < MaxTests
    /\ started' = started + 1
    /\ contexts' = Append(contexts, FreshContext)
    /\ running' = [running EXCEPT ![w] =
                       [phase |-> "setup", id |-> started + 1, steps |-> 0]]
    /\ UNCHANGED <<pageObject, nonIsoVars>>

\* test.beforeEach(async ({ page }) => { loginPage = new LoginPage(page);
\* await loginPage.goto(); }): goto acts on the page of the page object.
RunBeforeEach(w) ==
    /\ running[w].phase = "setup"
    /\ LET po == beforeEach(pageObject[w], running[w].id)
       IN  /\ pageObject' = [pageObject EXCEPT ![w] = po]
           /\ IF contexts[po].open
              THEN /\ contexts' = [contexts EXCEPT
                          ![po].surface = "/login",
                          ![po].actors = @ \cup {running[w].id}]
                   /\ running' = [running EXCEPT ![w].phase = "body"]
              ELSE /\ running' = [running EXCEPT ![w].phase = "failed"]
                   /\ UNCHANGED contexts
    /\ UNCHANGED <<started, nonIsoVars>>

BodySteps == {"login", "logout", "waitForEvent"}

\* What a step of a test body does to the page and context it acts on.
Act(c, step, id) ==
    [c EXCEPT
        !.surface = CASE step = "login" -> "/secure"
                      [] step = "logout" -> "/login"
                      [] OTHER -> @,
        !.session = CASE step = "login" -> TRUE
                      [] step = "logout" -> FALSE
                      [] OTHER -> @,
        !.pending = IF step = "waitForEvent" /\ @ = 0 THEN 1 ELSE @,
        !.actors = @ \cup {id}]

\* A statement of the test body: every one goes through the describe
\* block's variable (await loginPage.login(...)).  On a page that is closed
\* the call rejects and the test fails.
RunBody(w) ==
    /\ running[w].phase = "body"
    /\ running[w].steps < MaxSteps
    /\ \E step \in BodySteps :
         LET po == pageObject[w]
         IN  IF contexts[po].open
             THEN /\ contexts' = [contexts EXCEPT
                         ![po] = Act(@, step, running[w].id)]
                  /\ running' = [running EXCEPT ![w].steps = @ + 1]
             ELSE /\ running' = [running EXCEPT ![w].phase = "failed"]
                  /\ UNCHANGED contexts
    /\ UNCHANGED <<started, pageObject, nonIsoVars>>

\* The test ends: the runner closes the context of its fixtures, which
\* rejects the waiters still pending on it.  The variable keeps its value.
EndTest(w) ==
    /\ running[w].phase \in {"body", "failed"}
    /\ contexts' = [contexts EXCEPT ![running[w].id].open = FALSE,
                                    ![running[w].id].pending = 0]
    /\ running' = [running EXCEPT ![w] = NoTest]
    /\ UNCHANGED <<started, pageObject, nonIsoVars>>

IsoIdle ==
    /\ started = 0
    /\ contexts = <<>>
    /\ running = [w \in Workers |-> NoTest]
    /\ pageObject = [w \in Workers |-> NoPageObject]


LateIdle ==
    /\ stest = NoSTest
    /\ hcall = NoHCall
    /\ wcall = NoWCall
    /\ dcall = NoDCall
    /\ mcall = NoMCall

OthIdle == FindIdle /\ AuthIdle /\ dragged = <<>> /\ IsoIdle /\ LateIdle

IsoNext ==
    \E w \in Workers :
        \/ BeginTest(w)
        \/ RunBeforeEach(w)
        \/ RunBody(w)
        \/ EndTest(w)

(***************************************************************************)
(* Specifications.                                                         *)
(***************************************************************************)
TblIdle ==
    /\ url = "/windows"
    /\ table = <<>>
    /\ headers = <<>>
    /\ links = <<>>
    /\ columns = <<>>
    /\ sortPending = FALSE
    /\ tcall = NoTCall
    /\ last = NoLast

Init == EvInit /\ TblIdle /\ OthIdle

Next == EvNext

Spec == Init /\ [][Next]_vars

\* The scenario's own code runs when it can, timers expire when due and the
\* clock runs; nothing obliges the browser to act.
ScenarioStep ==
    \/ StartCall \/ ExecWaitForEvent \/ ExecIssue \/ ExecResume
    \/ ExecAwaitEvent \/ ExecAll \/ ExecClose \/ ExecSnapshotPages
    \/ ExecCloseLoop \/ ExecPoll \/ Return \/ Continue \/ NewScenario
TimerStep == CommandTimeout \/ SubTimeout \/ TestTimeout

InitTable == EvInit /\ TblInit /\ OthIdle

SpecTable == InitTable /\ [][TblNext]_vars

FairSpec ==
    Spec /\ WF_vars(ScenarioStep) /\ WF_vars(TimerStep) /\ WF_vars(Tick)

FindInit ==
    /\ pages \in PageLists
    /\ created = MaxPages
    /\ call = Idle
    /\ sub = NoSub
    /\ armed = FALSE
    /\ fired = "no"
    /\ testElapsed = 0
    /\ TblIdle
    /\ docs \in [PageIds -> Docs]
    /\ fcall = NoFCall
    /\ lastIndex = 0
    /\ AuthIdle
    /\ dragged = <<>>
    /\ IsoIdle
    /\ LateIdle

SpecFind == FindInit /\ [][FindNext]_vars

SpecAuth == Init /\ [][AuthNext]_vars

SpecIso == Init /\ [][IsoNext]_vars

SpecSoft == Init /\ [][SoftNext]_vars

SpecHelpers == Init /\ [][HNext]_vars

SpecWin == FindInit /\ [][WinNext]_vars

SpecDownload == Init /\ [][DownloadNext]_vars

SpecManualDrag == Init /\ [][ManualNext]_vars

(***************************************************************************)
(* Claims about the event-observing operations.                            *)
(***************************************************************************)
InPageObjectEventOp == call.op \in PageObjectEventOps /\ call.st # "idle"
ClickIssued == Running /\ Stmt \in {"click", "all"} /\ call.cmd # "none"

C2_AwaitedAsJoin ==
    (Running /\ call.op \in EventOps) => Stmt \notin {"click", "awaitEvent"}

\* C3: every blocking wait of an operation ends: an operation that is
\* running eventually returns or throws, also when the expected event, the
\* command's completion or the polled condition never comes.
C3_EveryWaitEnds == Running ~> ~Running

\* C3 witness: the event never occurred and the subscription's timeout
\* reached the caller.
C3_Witness ==
    /\ call.st = "threw"
    /\ call.err = "TimeoutError"
    /\ call.op \in PageObjectEventOps
    /\ Program(call.op)[call.ip] = "awaitEvent"
    /\ fired = "no"

\* C4: when an event-observing operation returns or throws, the
\* subscription it registered is no longer pending.
C4_NoPendingSubscriptionAtExit ==
    (InPageObjectEventOp /\ call.st \in {"returned", "threw"}
        /\ call.err # "TestTimeout") => sub.st # "pending"

(***************************************************************************)
(* Claims about the windows of the context.                                *)
(***************************************************************************)
\* C10: after closeAllExceptMain() completes (called with at least one window
\* open) exactly one window remains open, and it is the main page the
\* scenario started with; no secondary window survives.
C10_OnlyMainRemains ==
    (call.op = "closeAllExceptMain" /\ call.st = "returned"
        /\ call.snap # <<>>) => pages = <<MainPage>>

(***************************************************************************)
(* Claims about the readers.                                               *)
(***************************************************************************)
\* The reader call is over and the surface did not change while it ran.
Done(ops) ==
    /\ tcall.op \in ops
    /\ tcall.st \in {"returned", "threw"}
    /\ ~tcall.mutated

RowIndices == 0..(Len(table) - 1)
MatchingRows ==
    IF tcall.op = "findRowByContent"
    THEN {i \in RowIndices : Includes(Concat(table[i + 1]), tcall.s)}
    ELSE {i \in RowIndices :
            /\ CellExists(table, i, tcall.c)
            /\ Includes(table[i + 1][tcall.c + 1], tcall.s)}
Lowest(S) == IF S = {} THEN -1 ELSE CHOOSE i \in S : \A j \in S : i <= j

\* C5: findRowByContent(text) and findRowIndexByCellContent(col, text)
\* return -1 when no row matches and otherwise the lowest 0-based index of a
\* matching row.
C5_LowestMatchOrNotFound ==
    Done({"findRowByContent", "findRowIndexByCellContent"}) =>
        /\ tcall.st = "returned"
        /\ tcall.val = Lowest(MatchingRows)

\* C6: getRowCount() returns the number of body rows, an integer >= 0, and
\* returns 0 on a table without body rows; it does not throw.
C6_RowCount ==
    Done({"getRowCount"}) =>
        /\ tcall.st = "returned"
        /\ tcall.val = Cardinality(DOMAIN table)
        /\ tcall.val >= 0
        /\ table = <<>> => tcall.val = 0

\* C6 witness: getRowCount() returned 0 on a table without body rows.
C6_Witness ==
    /\ Done({"getRowCount"})
    /\ table = <<>>
    /\ tcall.st = "returned"
    /\ tcall.val = 0

AllStrings(vs) == \A k \in DOMAIN vs : IsString(vs[k])

\* C7: table extraction (getAllTableData, getRowData, getColumnData,
\* getCellText) on the rows of the table, a row of zero cells included, does
\* not throw, and every cell value it yields, also for a column the row does
\* not have, is a string.
C7_ExtractionYieldsStrings ==
    (/\ Done({"getAllTableData", "getRowData", "getColumnData",
              "getCellText"})
     /\ tcall.op \in {"getRowData", "getCellText"} =>
            RowExists(table, tcall.r)) =>
        /\ tcall.st = "returned"
        /\ CASE tcall.op = "getCellText" -> IsString(tcall.val)
             [] tcall.op = "getAllTableData" ->
                    \A k \in DOMAIN tcall.val : AllStrings(tcall.val[k])
             [] OTHER -> AllStrings(tcall.val)

\* C8: getColumnData(col) returns one value per body row, in row order: its
\* length is the row count of the table, and its i-th element is the trimmed
\* text of row i's cell in that column.
C8_ColumnData ==
    Done({"getColumnData"}) =>
        /\ tcall.st = "returned"
        /\ Len(tcall.val) = getRowCount(table)
        /\ \A i \in RowIndices :
              CellExists(table, i, tcall.c) =>
                  tcall.val[i + 1] = Trim(table[i + 1][tcall.c + 1])

\* C8 witness: getColumnData returned the column of a table of two rows, of
\* which one has a cell with surrounding whitespace in the column and the
\* other has no cell there.
C8_Witness ==
    /\ Done({"getColumnData"})
    /\ tcall.st = "returned"
    /\ Len(table) = 2
    /\ \E i, j \in RowIndices :
          /\ CellExists(table, i, tcall.c)
          /\ table[i + 1][tcall.c + 1] # Trim(table[i + 1][tcall.c + 1])
          /\ ~CellExists(table, j, tcall.c)

\* C9: calling a reader twice in a row, with no mutation of the surface in
\* between, returns equal results; and no step of a reader changes the
\* surface.
ReaderStep == Reading /\ tcall' # tcall /\ tcall'.mutated = tcall.mutated
C9_SecondReadEqual ==
    (tcall.st \in {"returned", "threw"} /\ ~tcall.mutated
        /\ SameCall(last, tcall)) =>
        /\ tcall.st = last.st
        /\ tcall.val = last.val
C9_ReadsIdempotent ==
    /\ []C9_SecondReadEqual
    /\ [][ReaderStep => UNCHANGED <<url, table, headers, links, columns>>]_vars

\* C9 witness: a second getDownloadableFiles() right after the first
\* returned the same two filenames.
C9_Witness ==
    /\ tcall.op = "getDownloadableFiles"
    /\ tcall.st = "returned"
    /\ SameCall(last, tcall)
    /\ Len(tcall.val) = 2
    /\ tcall.val = last.val

(***************************************************************************)
(* Claims about the window count and the last window.                      *)
(***************************************************************************)
IsOpen(p) == \E i \in DOMAIN pages : pages[i] = p
OpenPages == {pages[i] : i \in DOMAIN pages}

\* C11: getWindowCount() is the number of windows opened and not yet closed:
\* it counts every open window once, the 'page' event of a link click raises
\* it by exactly 1 (and a clickLinkOpeningNewWindow that returned has had
\* that event), closeWindow(page) on an open window lowers it by exactly 1,
\* and no other step of an operation changes it.
C11_CountIsOpenWindows ==
    /\ getWindowCount = Cardinality(OpenPages)
    /\ (call.op = "clickLinkOpeningNewWindow" /\ call.st = "returned") =>
            fired = "delivered"
C11_PageOpened ==
    EventKind(call.op) = "page" /\ fired = "no" /\ fired' # "no"
C11_PageClosed ==
    Stmt = "close" /\ call'.ip # call.ip /\ IsOpen(call.arg)
C11_WindowCount ==
    /\ []C11_CountIsOpenWindows
    /\ [][/\ C11_PageOpened => getWindowCount' = getWindowCount + 1
          /\ C11_PageClosed => getWindowCount' = getWindowCount - 1
          /\ (Running /\ ~C11_PageOpened /\ ~C11_PageClosed
                /\ Stmt # "closeLoop") =>
                getWindowCount' = getWindowCount]_vars

\* C11 witness: a window was opened by a link click and closed again by
\* closeWindow, which brought the count back to 1.
C11_Witness ==
    /\ call.op = "closeWindow"
    /\ call.st = "returned"
    /\ call.arg = 2
    /\ created = 2
    /\ getWindowCount = 1

\* C12: right after clickLinkOpeningNewWindow returned (the window is open
\* and its 'page' event was awaited) switchToLastWindow() is the page that
\* was just opened, which is open.
C12_LastIsNewest ==
    (call.op = "clickLinkOpeningNewWindow" /\ call.st = "returned") =>
        /\ switchToLastWindow = created
        /\ IsOpen(created)
        /\ created # MainPage

\* C12 witness: the second new window of the scenario was opened while the
\* first was still open, and it is the last window.
C12_Witness ==
    /\ call.op = "clickLinkOpeningNewWindow"
    /\ call.st = "returned"
    /\ pages = <<MainPage, 2, 3>>
    /\ switchToLastWindow = 3

(***************************************************************************)
(* Claims about finding a window.                                          *)
(***************************************************************************)
FindReturned(op) == fcall.op = op /\ fcall.st = "returned"
TitleMatches == {p \in OpenPages : Includes(docs[p].title, fcall.arg)}
UrlMatches == {p \in OpenPages : Includes(docs[p].url, fcall.arg)}

\* C13: findWindowByTitle called with the title of an open page P returns P
\* itself, findWindowByURL called with P's URL or a pattern matching it
\* returns an open page, and both return null exactly when no open page's
\* title / URL matches the argument.
C13_FindsThePage ==
    /\ FindReturned("findWindowByTitle") =>
          /\ \A P \in OpenPages :
                docs[P].title = fcall.arg => fcall.val = P
          /\ fcall.val = NoPage <=> TitleMatches = {}
    /\ FindReturned("findWindowByURL") =>
          /\ fcall.val # NoPage => IsOpen(fcall.val)
          /\ fcall.val = NoPage <=> UrlMatches = {}

(***************************************************************************)
(* Claims about registration, login and logout.                            *)
(***************************************************************************)
AuthReturned(op) == acall.op = op /\ acall.st = "returned"

\* C14: in the lifecycle register - log in - log out every step lands on the
\* expected surface: register with the username uniqueUsername just
\* generated (and a password equal to its confirmation) ends on /login with
\* the success notice, logging in with a registered account ends on
\* /secure, logout ends on /login with the logout notice, and without a
\* session no navigation reaches /secure.
C14_Lifecycle ==
    /\ (AuthReturned("register") /\ acall.fresh /\ acall.p # ""
            /\ acall.p = acall.c) =>
          /\ surface = "/login"
          /\ flash = MESSAGES.registerSuccess
    /\ (AuthReturned("login") /\ Account(acall.u, acall.p) \in users) =>
          /\ surface = "/secure"
          /\ session = acall.u
    /\ AuthReturned("logout") =>
          /\ surface = "/login"
          /\ flash = MESSAGES.logoutSuccess
          /\ session = NoUser
    /\ surface = "/secure" => session # NoUser
    /\ (AuthReturned("gotoSecure") /\ session = NoUser) => surface = "/login"

\* C15: a submit with invalid input stays on the form's own surface:
\* register(u, p, c) with an empty field or p # c ends on /register,
\* login(u, p) with credentials of no account ends on /login, and so does
\* every click on Register or Login with such values in the form, which
\* creates no account and no session.
InvalidRegistration(u, p, c) ==
    u = emptyString \/ p = "" \/ c = "" \/ p # c
InvalidLogin(u, p) ==
    u = emptyString \/ p = "" \/ Account(u, p) \notin users
C15_InvalidArgsStay ==
    /\ (AuthReturned("register")
            /\ InvalidRegistration(acall.u, acall.p, acall.c)) =>
          surface = "/register"
    /\ (AuthReturned("login") /\ InvalidLogin(acall.u, acall.p)) =>
          surface = "/login"
C15_Submitted(stmt) ==
    AStmt = stmt /\ acall'.ip # acall.ip
C15_InvalidSubmitStays ==
    /\ []C15_InvalidArgsStay
    /\ [][/\ (C15_Submitted("clickRegister")
                /\ InvalidRegistration(form.u, form.p, form.c)) =>
                (surface' = "/register" /\ users' = users)
          /\ (C15_Submitted("clickLogin") /\ InvalidLogin(form.u, form.p)) =>
                (surface' = "/login" /\ session' = session)]_vars

\* C15 witness: register with a mismatching confirmation returned on
\* /register with the mismatch notice.
C15_Witness ==
    /\ AuthReturned("register")
    /\ acall.u # emptyString
    /\ acall.p = "password"
    /\ acall.c = "passwordd"
    /\ surface = "/register"
    /\ flash = MESSAGES.passwordMismatch

\* C20: any two calls of uniqueUsername with the same prefix return
\* different usernames: no username has been returned twice.
C20_NoCollision ==
    \A name \in BagToSet(issued) : CopiesIn(name, issued) = 1

(***************************************************************************)
(* Claims about drag and drop.                                             *)
(***************************************************************************)
\* C16: dragAtoB() swaps the text contents of the two columns: column A's
\* text afterwards is column B's text before the drag, and column B's text
\* afterwards is column A's text before it.
C16_DragSwapsTexts ==
    [][dragAtoB =>
          /\ getColumnAText(columns') = getColumnBText(columns)
          /\ getColumnBText(columns') = getColumnAText(columns)]_vars

\* C16 witness: after one dragAtoB() column A reads b and column B reads a.
C16_Witness ==
    /\ dragged = <<"AtoB">>
    /\ getColumnAText(columns) = <<"b">>
    /\ getColumnBText(columns) = <<"a">>

Alternating ==
    \A k \in DOMAIN dragged :
        dragged[k] = IF k % 2 = 1 THEN "AtoB" ELSE "BtoA"

\* C17: dragAtoB() followed by dragBtoA() restores the original state of
\* both columns, for any number of alternating repetitions: after an even
\* number of alternating drags the pair is original, after an odd number it
\* is swapped.
C17_InverseRestores ==
    (url = "/drag-and-drop" /\ Alternating) =>
        IF Len(dragged) % 2 = 0
        THEN expectOriginalState(columns) /\ ~expectSwapped(columns)
        ELSE expectSwapped(columns) /\ ~expectOriginalState(columns)

\* C17 witness: A to B, B to A, A to B were performed and the pair is
\* swapped.
C17_Witness ==
    /\ dragged = <<"AtoB", "BtoA", "AtoB">>
    /\ expectSwapped(columns)

\* C18: dragAtoB() twice in direct succession leaves the pair in the swapped
\* state the first drag produced, not back in the original state.
C18_SecondDragIsNoOp ==
    (url = "/drag-and-drop" /\ dragged = <<"AtoB", "AtoB">>) =>
        expectSwapped(columns) /\ ~expectOriginalState(columns)

(***************************************************************************)
(* Claims about the isolation of scenarios.                                *)
(***************************************************************************)
SetUp(w) == running[w].phase \in {"body", "failed"}
InBody(w) == running[w].phase = "body"

\* C19: scenarios are isolated.  Each running test has a context of its
\* own; once its setup has run the describe block's variable is the page
\* object of its own page; when the body starts, that page shows the surface setup
\* navigated to, with no session and no pending event; and no test has ever
\* acted on the context of another, whether the two ran on different
\* workers or one after the other on the same worker.
C19_Isolated ==
    /\ \A w1, w2 \in Workers :
         (w1 # w2 /\ running[w1].phase # "none" /\ running[w2].phase # "none")
             => running[w1].id # running[w2].id
    /\ \A w \in Workers : SetUp(w) => pageObject[w] = running[w].id
    /\ \A w \in Workers : InBody(w) =>
         /\ contexts[running[w].id].open
         /\ running[w].steps = 0 =>
              /\ contexts[running[w].id].surface = "/login"
              /\ ~contexts[running[w].id].session
              /\ contexts[running[w].id].pending = 0
    /\ \A c \in DOMAIN contexts : contexts[c].actors \subseteq {c}

\* C19 witness: a test starts its body on a worker whose variable was bound
\* by an earlier test that logged in and left a waiter, while the test of
\* the other worker holds a session.
C19_Witness ==
    \E w1, w2 \in Workers : \E c \in DOMAIN contexts :
        /\ w1 # w2 /\ InBody(w1) /\ InBody(w2)
        /\ running[w1].steps = 0
        /\ ~contexts[c].open /\ contexts[c].actors = {c}
        /\ c < running[w1].id
        /\ contexts[running[w2].id].session
        /\ contexts[running[w2].id].pending = 1

(***************************************************************************)
(* Claims about errors and assertions.                                     *)
(***************************************************************************)
SoftAssertions == {k \in DOMAIN TC_FV04 : TC_FV04[k] = "soft"}
SoftEnded == stest.st \in {"passed", "failed"} /\ ~stest.gotoFailed

Rejected ==
    /\ Running
    /\ \/ call.cmd = "failed"
       \/ Stmt = "awaitEvent" /\ sub.st = "timedout"

\* C22: an infrastructure error raised by a step of a page-object operation
\* ends the operation at that step with the error, and the scenario with
\* it: the operation executes none of its remaining statements, issues no
\* command again, and the scenario calls nothing more.
C22_ErrorPropagates ==
    [][/\ Rejected =>
            \/ call' = call
            \/ call'.st = "threw" /\ call'.ip = call.ip /\ call'.op = call.op
       /\ call.st = "threw" => (call' = call \/ call' = Idle)
       /\ (call'.cmd = "inflight" /\ call.cmd # "inflight") =>
            call.cmd = "none" /\ call.st = "running"]_vars

\* C22 witness: a page-object operation threw a TimeoutError with
\* statements left to execute.
C22_Witness ==
    /\ call.op \in PageObjectEventOps
    /\ call.st = "threw"
    /\ call.err = "TimeoutError"
    /\ call.ip < Len(Program(call.op))

\* What login(u, p) gives on a clean login surface: the site's answer to
\* the form holding u and p, and an empty form.
FromCleanLogin(u, p) == SubmitLogin([u |-> u, p |-> p, c |-> ""])

AssertionStmts == {"expectLoginURL", "expectSecureURL", "expectLogoutVisible"}
AssertionHelpers == {"expectRedirectedToLogin", "expectOnSecurePage"}
ActionMethods == AuthOps \ AssertionHelpers

\* A statement of an assertion helper leaves the surface, the form, the
\* session, the notice and the accounts as they are.
C24_AssertionsOnlyCompare ==
    [][(acall.op \in AssertionHelpers /\ acall'.op = acall.op) =>
          UNCHANGED <<surface, form, session, flash, users>>]_vars

\* C24: assertions are kept separate from actions: an assertion helper only
\* polls and compares and leaves the surface state unchanged, and an action
\* method changes state without performing an assertion.
C24_AssertionsApartFromActions ==
    /\ C24_AssertionsOnlyCompare
    /\ [](acall.op \in ActionMethods => AStmt \notin AssertionStmts)

(***************************************************************************)
(* Claims about the helpers of the upload and download scenarios.          *)
(***************************************************************************)
\* The statements documented as best effort: the three close-clicks of
\* dismissAnyAds and the ad wait of TC-DD12 ("don't fail if no ad found").
BestEffort == {"tryClick", "waitCatch"}
HStmtAt(k) == HProgram(hcall.op)[k]
CloseClicks == {k \in DOMAIN HProgram(hcall.op) : HStmtAt(k) = "tryClick"}

Navigated == hcall.routesAtGoto # NotFound

\* C26: in every upload and download scenario all the route registrations
\* of blockAds have completed when the first page.goto is issued.
C26_RoutesBeforeGoto ==
    (hcall.op \in {"FileUpload_beforeEach", "FileDownload_beforeEach",
                   "TC_CYCLE01"} /\ Navigated) =>
        hcall.routesAtGoto = Len(blockAds)

\* C26 witness: the upload scenario has navigated, with every route
\* registered.
C26_Witness ==
    /\ hcall.op = "FileUpload_beforeEach"
    /\ Navigated
    /\ hcall.routes = Len(blockAds)

(***************************************************************************)
(* Claims about readers and a table that is re-rendered under them.        *)
(***************************************************************************)
MatchingIn(t) ==
    IF tcall.op = "findRowByContent"
    THEN {i \in 0..(Len(t) - 1) : Includes(Concat(t[i + 1]), tcall.s)}
    ELSE {i \in 0..(Len(t) - 1) :
            /\ CellExists(t, i, tcall.c)
            /\ Includes(t[i + 1][tcall.c + 1], tcall.s)}

\* The value the reader returned is one it can return on the table t.
ConsistentWith(t) ==
    IF tcall.op = "getAllTableData"
    THEN tcall.val = [k \in DOMAIN t |-> getRowData(t, k - 1)]
    ELSE \/ tcall.val = NotFound /\ MatchingIn(t) = {}
         \/ tcall.val \in MatchingIn(t)

\* C27: when findRowIndexByCellContent, findRowByContent or getAllTableData
\* returns, its result is consistent with a single state of the table,
\* also when the table was re-sorted between two of its reads: the rows of
\* one order of the table, or an index that holds a matching row in one
\* order, or -1 when no row matches.
C27_ConsistentWithOneState ==
    (tcall.st = "returned"
        /\ tcall.op \in {"findRowIndexByCellContent", "findRowByContent",
                         "getAllTableData"}) =>
        \E t \in Perms(table) : ConsistentWith(t)

(***************************************************************************)
(* Claims about switchToWindow, the download readers and manualDragDrop.   *)
(***************************************************************************)
ValidIndices == {i \in Indices : switchToWindow(pages, i).st = "returned"}

\* C28: for every integer index, switchToWindow(index) returns the open
\* page at that position of the context's page list or fails with the error
\* 'Window <index> does not exist'; it never returns a value that is not an
\* open page, and two distinct valid indices return two distinct pages.
C28_PageOrError ==
    /\ wcall.st = "returned" =>
         /\ IsOpen(wcall.val)
         /\ wcall.index + 1 \in DOMAIN pages
         /\ wcall.val = pages[wcall.index + 1]
    /\ wcall.st = "threw" => wcall.err = "Window does not exist"
    /\ \A i, j \in ValidIndices :
         i # j => switchToWindow(pages, i).val # switchToWindow(pages, j).val

\* C29: downloadAndReadText and downloadAndReadBuffer return the content of
\* the downloaded artifact only when the download yields a storage path;
\* when no path is returned they fail with the error 'Download failed - no
\* path returned' and read no file.
C29_ContentOnlyWithPath ==
    /\ dcall.st = "returned" =>
         /\ dcall.filePath = "tmp"
         /\ dcall.reads = 1
         /\ dcall.val.data = Stored(dcall.filename)
         /\ dcall.val.type = IF dcall.op = "downloadAndReadText"
                             THEN "string" ELSE "Buffer"
    /\ dcall.filePath = "null" =>
         /\ dcall.reads = 0
         /\ dcall.st # "returned"
         /\ dcall.st = "threw" =>
              dcall.err = "Download failed - no path returned"
         /\ dcall.ip <= 3

\* C29 witness: downloadAndReadBuffer failed with the error after a download
\* that returned no path, and read nothing.
C29_Witness ==
    /\ dcall.op = "downloadAndReadBuffer"
    /\ dcall.filePath = "null"
    /\ dcall.st = "threw"
    /\ dcall.err = "Download failed - no path returned"
    /\ dcall.reads = 0

ManualEnded == mcall.st \in {"returned", "threw"}

\* When an element had no bounding box, the operation failed with the
\* error before any mouse command.
C30_NoBoxNoMouse ==
    (mcall.ip >= 4 /\ (~mcall.sourceBox \/ ~mcall.targetBox)) =>
        /\ mcall.mouse = 0
        /\ mcall.ip = 4
        /\ mcall.st = "threw" => mcall.err = "Elements not visible for drag-drop"

\* C30: manualDragDrop fails with 'Elements not visible for drag-drop'
\* before issuing any mouse command when either element has no bounding
\* box; and whenever it has pressed the mouse button, the button is released
\* when the operation has ended, whether it returned or threw.
C30_ButtonReleasedAtEnd ==
    /\ C30_NoBoxNoMouse
    /\ (ManualEnded /\ mcall.pressed) => ~mcall.down

====
